---- MODULE Spec2Model ----
(***************************************************************************)
(* The analyze handler of the website audit tool (src/api/analyze.js):     *)
(* request validation, configuration check, the PageSpeed call with its    *)
(* score aggregation, the Gemini call with its JSON extraction, and the    *)
(* rule-table fallback.  One execution of the handler is modelled; the     *)
(* two awaits are the step boundaries.                                     *)
(*                                                                         *)
(* The other components have a specification each, over their own          *)
(* variables: the lead-capture handler (SpecLead), the create-payment      *)
(* handler (SpecPay), the handler exported by generate-pdf.js (SpecPdf)    *)
(* and the form client (SpecForm).  In each specification the variables    *)
(* of the other components rest at their idle values.                      *)
(***************************************************************************)
EXTENDS Integers, Sequences, FiniteSets, TLC

VARIABLES
    env,            \* process.env: the two credentials
    pc,             \* position of the handler: idle, pagespeed, gemini, done
    req,            \* the request being served: method and body
    calls,          \* outbound provider calls issued so far, in order
    psOutcome,      \* what the Performance Provider answered
    pageSpeedData,  \* value of getPageSpeedData(url), once computed
    aiOutcome,      \* what the Recommendation Provider answered
    res,            \* the response sent
    execs,          \* the locals of each of several concurrent executions
    \* lead-capture handler
    leadEnv,        \* process.env: database credentials and CRM webhook
    leadPc,         \* idle, insert, zoho, notify, done
    leadReq,        \* the request being served
    leads,          \* the rows of the hosted table 'leads'
    savedLead,      \* the local savedLead: <<>> or <<row>>
    leadLog,        \* side calls of this execution, with their outcomes
    leadRes,        \* the response sent
    leadHistory,    \* the responses sent by earlier executions
    \* create-payment handler
    payPc,          \* idle, create, done
    payReq,         \* the request being served
    sessions,       \* the checkout sessions held by the payment provider
    payRes,         \* the response sent
    payHistory,     \* the responses sent by earlier executions
    \* handler exported by generate-pdf.js
    pdfPc,          \* idle, retrieve, pagespeed, gemini, done
    pdfReq,         \* the request being served
    pdfCalls,       \* outbound calls of this execution
    pdfData,        \* the handler's locals across its awaits
    pdfRes,         \* the response sent
    \* form client
    formPc,         \* of each request to /api/analyze: fetch, json, done,
                    \* gone
    formInput,      \* the fields of the submission handled last
    storage,        \* localStorage item 'auditResults': <<>> or <<value>>
    btnDisabled,    \* analyzeBtn.disabled
    page,           \* the document loaded: index.html holds the form,
                    \* audit.html the unlock button
    location,       \* window.location.href: the page loaded or asked for
    fetches,        \* requests issued to /api/analyze, in order
    submits,        \* what each finished submission came to, in order
    settled,        \* what the requests to /api/analyze came to, in the
                    \* order in which they settled
    unlockPc,       \* the click handler of unlockReportBtn: idle, fetch, json
    unlockDisabled, \* unlockReportBtn.disabled
    payPosts        \* the request issued last to /api/create-payment

analyzeVars ==
    <<env, pc, req, calls, psOutcome, pageSpeedData, aiOutcome, res, execs>>
leadVars == <<leadEnv, leadPc, leadReq, leads, savedLead, leadLog, leadRes,
              leadHistory>>
payVars == <<payPc, payReq, sessions, payRes, payHistory>>
pdfVars == <<pdfPc, pdfReq, pdfCalls, pdfData, pdfRes>>
formVars == <<formPc, formInput, storage, btnDisabled, page, location,
              fetches, submits, settled, unlockPc, unlockDisabled, payPosts>>

vars == <<analyzeVars, leadVars, payVars, pdfVars, formVars>>

-----------------------------------------------------------------------------
(* Bounds of the model *)

\* longest parsed array the Recommendation Provider is made to return
MaxItems == 10
\* longest free-form token text the Recommendation Provider is made to return
MaxTextLen == 2

-----------------------------------------------------------------------------
(* JavaScript values *)

\* a destructured field that is absent, or an unset environment value
Undefined == "<undefined>"

\* !v for a string or undefined
Falsy(v) == v \in {Undefined, ""}

\* no request taken yet
NoRequest == [method |-> "", body |-> <<>>]

\* Idle values of each component's variables.
LeadIdle ==
    /\ leadEnv = [SUPABASE_URL |-> Undefined, SUPABASE_KEY |-> Undefined,
                  ZOHO_WEBHOOK_URL |-> Undefined]
    /\ leadPc = "idle"
    /\ leadReq = NoRequest
    /\ leads = <<>>
    /\ savedLead = <<>>
    /\ leadLog = <<>>
    /\ leadRes = <<>>
    /\ leadHistory = <<>>

PayIdle ==
    /\ payPc = "idle"
    /\ payReq = NoRequest
    /\ sessions = <<>>
    /\ payRes = <<>>
    /\ payHistory = <<>>

PdfIdle ==
    /\ pdfPc = "idle"
    /\ pdfReq = NoRequest
    /\ pdfCalls = <<>>
    /\ pdfData = <<>>
    /\ pdfRes = <<>>

FormIdle ==
    /\ formPc = <<>>
    /\ formInput = <<>>
    /\ storage = <<>>
    /\ btnDisabled = FALSE
    /\ page = "index.html"
    /\ location = "index.html"
    /\ fetches = <<>>
    /\ submits = <<>>
    /\ settled = <<>>
    /\ unlockPc = "idle"
    /\ unlockDisabled = FALSE
    /\ payPosts = <<>>

Min(a, b) == IF a < b THEN a ELSE b

\* Array.prototype.slice(from, to) with 0 <= from <= to
Slice(s, from, to) == SubSeq(s, from + 1, Min(to, Len(s)))

\* Math.round(n / d) for integers n >= 0, d > 0: nearest integer, halves up
MathRound(n, d) == (2 * n + d) \div (2 * d)

-----------------------------------------------------------------------------
(* Inputs *)

Methods == {"OPTIONS", "GET", "POST"}
Urls    == {Undefined, "", "https://a.example"}
Emails  == {Undefined, "", "ann@a.example"}
Names   == {Undefined, "Ann"}
Keys    == {Undefined, "", "key"}

\* req.body: <<>> when the request carries no body, else <<fields>>
Bodies == {<<>>} \cup
          {<<[url |-> u, email |-> e, name |-> n]>> :
              u \in Urls, e \in Emails, n \in Names}

\* Provider scores are fractions in [0,1], here in thousandths.
Fractions == {0, 5, 285, 695, 1000}

\* one entry of lighthouseResult.categories: <<>> when the category is
\* missing or its score is null, else <<score in thousandths>>
CategoryScores == {<<>>} \cup {<<k>> : k \in Fractions}

\* Answers of the Performance Provider: the call throws (HTTP error,
\* timeout), the payload has no lighthouseResult.categories, or it has.
NoCategories == [performance |-> <<>>, seo |-> <<>>, accessibility |-> <<>>,
                 bestPractices |-> <<>>]
PageSpeedOutcomes ==
    {[kind |-> k, categories |-> NoCategories] : k \in {"throw", "nocategories"}}
    \cup
    {[kind |-> "ok",
      categories |-> [performance |-> p, seo |-> s, accessibility |-> a,
                      bestPractices |-> b]] :
        p \in CategoryScores, s \in CategoryScores,
        a \in CategoryScores, b \in CategoryScores}

\* The Recommendation Provider's text as a token sequence: "[" "]" ","
\* are themselves, "o" is one JSON object literal, "p" is a run of prose
\* (or markdown fence) that is no JSON token.
Alphabet == {"[", "]", ",", "o", "p"}

RECURSIVE ArrayBody(_)
ArrayBody(n) == IF n = 0 THEN <<>>
                ELSE IF n = 1 THEN <<"o">>
                ELSE ArrayBody(n - 1) \o <<",", "o">>

\* the text of a JSON array of n objects
ArrayText(n) == <<"[">> \o ArrayBody(n) \o <<"]">>

\* what the provider may put around the array
Affixes == {<<>>, <<"p">>, <<"[", "p", "]">>}

Texts ==
    UNION {[1..n -> Alphabet] : n \in 0..MaxTextLen}
    \cup
    {pre \o ArrayText(n) \o suf : n \in 0..MaxItems, pre \in Affixes, suf \in Affixes}

\* Answers of the Recommendation Provider: the call throws, the payload
\* has no candidates[0].content.parts[0].text string, or it has a text.
GeminiOutcomes ==
    {[kind |-> k, text |-> <<>>] : k \in {"throw", "malformed"}}
    \cup
    {[kind |-> "text", text |-> t] : t \in Texts}

-----------------------------------------------------------------------------
(* getPageSpeedData *)

\* a missing category counted as one half
ScoreOrZero_OrHalf(c) == IF c = <<>> THEN 500 ELSE c[1]

\* (categories.x?.score || 0) in thousandths
ScoreOrZero(c) == IF c = <<>> THEN 0 ELSE c[1]

\* thousandths k whose double product (k/1000)*100 falls just below a half
BelowHalf == {145, 285, 565, 575}

\* Math.round(f * 100) for the fraction f = k/1000, in IEEE doubles
RoundPercent(k) == IF k \in BelowHalf THEN k \div 10 ELSE MathRound(k, 10)

\* the mean truncated instead of rounded
Mobile_Floor(performance, bestPractices) == (performance + bestPractices) \div 2

\* the sum not halved
Mobile_Sum(performance, bestPractices) == performance + bestPractices

Mobile(performance, bestPractices) == MathRound(performance + bestPractices, 2)

\* the mean truncated instead of rounded
OverallScore_Floor(performance, seo, accessibility, mobile) ==
    (performance + seo + accessibility + mobile) \div 4

\* mobile left out of the mean
OverallScore_MeanOfThree(performance, seo, accessibility, mobile) ==
    MathRound(performance + seo + accessibility, 3)

OverallScore(performance, seo, accessibility, mobile) ==
    MathRound(performance + seo + accessibility + mobile, 4)

\* rounded best-practices score, a local of getPageSpeedData
BestPractices(categories) == RoundPercent(ScoreOrZero(categories.bestPractices))

ComputeScores(categories) ==
    LET performance   == RoundPercent(ScoreOrZero(categories.performance))
        seo           == RoundPercent(ScoreOrZero(categories.seo))
        accessibility == RoundPercent(ScoreOrZero(categories.accessibility))
        bestPractices == BestPractices(categories)
        mobile        == Mobile(performance, bestPractices)
        overallScore  == OverallScore(performance, seo, accessibility, mobile)
    IN  [overallScore |-> overallScore, performance |-> performance,
         seo |-> seo, mobile |-> mobile, accessibility |-> accessibility]

FallbackScores ==
    [overallScore |-> 50, performance |-> 50, seo |-> 50, mobile |-> 50,
     accessibility |-> 50]

\* A call's result: threw tells whether an exception left the function.
Returned(v) == [threw |-> FALSE, value |-> <<v>>]
Thrown      == [threw |-> TRUE, value |-> <<>>]

\* the catch block missing: a provider failure leaves the function
getPageSpeedData_NoCatch(outcome) ==
    IF outcome.kind = "ok"
    THEN Returned(ComputeScores(outcome.categories))
    ELSE Thrown

getPageSpeedData(outcome) ==
    IF outcome.kind = "ok"
    THEN Returned(ComputeScores(outcome.categories))
    ELSE Returned(FallbackScores)

-----------------------------------------------------------------------------
(* getFallbackRecommendations: the rule table *)

Recommendation(t, d, p, i) ==
    [title |-> t, description |-> d, priority |-> p, impact |-> i]

OptimizeImages == Recommendation("Optimize Images",
    "Compress images using tools like TinyPNG, convert to WebP format, and implement lazy loading to reduce initial page load time.",
    "High", "2-5 seconds faster load time")
MinifyCssJs == Recommendation("Minify CSS and JavaScript",
    "Remove unnecessary characters, whitespace, and comments from CSS and JavaScript files to reduce file sizes.",
    "High", "10-30% reduction in file sizes")
ImproveMetaTags == Recommendation("Improve Meta Tags",
    "Add unique, descriptive title tags (50-60 chars) and meta descriptions (150-160 chars) to all pages. Include target keywords naturally.",
    "High", "Better search rankings and click-through rates")
\* the arrows of the source's description are written "->" here
FixHeadingStructure == Recommendation("Fix Heading Structure",
    "Ensure proper heading hierarchy (H1 -> H2 -> H3) on all pages. Use only one H1 per page containing your main keyword.",
    "Medium", "Improved SEO and accessibility")
MobileResponsiveDesign == Recommendation("Mobile Responsive Design",
    "Fix responsive layout issues, ensure tap targets are at least 48x48 pixels, and use appropriate font sizes (minimum 16px) for mobile devices.",
    "High", "Better mobile user experience and rankings")
ImproveAccessibility == Recommendation("Improve Accessibility",
    "Add descriptive alt text to all images, ensure color contrast ratio is at least 4.5:1, and add ARIA labels to interactive elements.",
    "Medium", "Reach 15% more users and improve SEO")
EnableBrowserCaching == Recommendation("Enable Browser Caching",
    "Configure your server to set proper cache headers for static resources (images, CSS, JS) to reduce repeat visitor load times.",
    "Medium", "50-70% faster for returning visitors")
InstallSslCertificate == Recommendation("Install SSL Certificate",
    "Secure your website with HTTPS to protect user data, build trust, and improve search rankings (required by Google).",
    "High", "Trust + SEO boost + security")

\* list.push(items...) guarded by a condition
PushIf(cond, list, items) == IF cond THEN list \o items ELSE list

\* the thresholds taken as <= 70
getFallbackRecommendations_AtMost70(data) ==
    LET l1 == PushIf(data.performance <= 70, <<>>,
                     <<OptimizeImages, MinifyCssJs>>)
        l2 == PushIf(data.seo <= 70, l1,
                     <<ImproveMetaTags, FixHeadingStructure>>)
        l3 == PushIf(data.mobile <= 70, l2, <<MobileResponsiveDesign>>)
        l4 == PushIf(data.accessibility <= 70, l3, <<ImproveAccessibility>>)
        l5 == PushIf(Len(l4) < 6, l4, <<EnableBrowserCaching>>)
        l6 == PushIf(Len(l5) < 6, l5, <<InstallSslCertificate>>)
    IN  Slice(l6, 0, 6)

\* the SSL entry guarded by one item too few
getFallbackRecommendations_SslBelow5(data) ==
    LET l1 == PushIf(data.performance < 70, <<>>,
                     <<OptimizeImages, MinifyCssJs>>)
        l2 == PushIf(data.seo < 70, l1,
                     <<ImproveMetaTags, FixHeadingStructure>>)
        l3 == PushIf(data.mobile < 70, l2, <<MobileResponsiveDesign>>)
        l4 == PushIf(data.accessibility < 70, l3, <<ImproveAccessibility>>)
        l5 == PushIf(Len(l4) < 6, l4, <<EnableBrowserCaching>>)
        l6 == PushIf(Len(l5) < 5, l5, <<InstallSslCertificate>>)
    IN  Slice(l6, 0, 6)

\* the two general entries in the other order
getFallbackRecommendations_SslFirst(data) ==
    LET l1 == PushIf(data.performance < 70, <<>>,
                     <<OptimizeImages, MinifyCssJs>>)
        l2 == PushIf(data.seo < 70, l1,
                     <<ImproveMetaTags, FixHeadingStructure>>)
        l3 == PushIf(data.mobile < 70, l2, <<MobileResponsiveDesign>>)
        l4 == PushIf(data.accessibility < 70, l3, <<ImproveAccessibility>>)
        l5 == PushIf(Len(l4) < 6, l4, <<InstallSslCertificate>>)
        l6 == PushIf(Len(l5) < 6, l5, <<EnableBrowserCaching>>)
    IN  Slice(l6, 0, 6)

getFallbackRecommendations(data) ==
    LET l1 == PushIf(data.performance < 70, <<>>,
                     <<OptimizeImages, MinifyCssJs>>)
        l2 == PushIf(data.seo < 70, l1,
                     <<ImproveMetaTags, FixHeadingStructure>>)
        l3 == PushIf(data.mobile < 70, l2, <<MobileResponsiveDesign>>)
        l4 == PushIf(data.accessibility < 70, l3, <<ImproveAccessibility>>)
        l5 == PushIf(Len(l4) < 6, l4, <<EnableBrowserCaching>>)
        l6 == PushIf(Len(l5) < 6, l5, <<InstallSslCertificate>>)
    IN  Slice(l6, 0, 6)

-----------------------------------------------------------------------------
(* generateAIRecommendations: JSON extraction *)

Positions(text, tok) == {i \in 1..Len(text) : text[i] = tok}
SetMin(S) == CHOOSE x \in S : \A y \in S : x <= y
SetMax(S) == CHOOSE x \in S : \A y \in S : x >= y

\* text.match(/\[[\s\S]*\]/): greedy, from the first "[" to the last "]";
\* <<>> for null, else <<matched text>>
JsonMatch(text) ==
    LET opens  == Positions(text, "[")
        closes == Positions(text, "]")
    IN  IF opens = {} \/ closes = {} \/ SetMax(closes) < SetMin(opens)
        THEN <<>>
        ELSE <<SubSeq(text, SetMin(opens), SetMax(closes))>>

\* JSON grammar over the tokens: value ::= "o" | "[" [value {"," value}] "]".
\* ParseValue(s, i) is the position just after the value starting at i,
\* or 0 when no value starts there.
RECURSIVE ParseValue(_, _), ParseElements(_, _, _)
ParseValue(s, i) ==
    IF i > Len(s) THEN 0
    ELSE IF s[i] = "o" THEN i + 1
    ELSE IF s[i] = "[" THEN ParseElements(s, i + 1, TRUE)
    ELSE 0

ParseElements(s, i, first) ==
    IF i > Len(s) THEN 0
    ELSE IF first /\ s[i] = "]" THEN i + 1
    ELSE LET j == ParseValue(s, i)
         IN  IF j = 0 \/ j > Len(s) THEN 0
             ELSE IF s[j] = "]" THEN j + 1
             ELSE IF s[j] = "," THEN ParseElements(s, j + 1, FALSE)
             ELSE 0

\* the elements of the valid array text s, from the element starting at i
RECURSIVE Elements(_, _)
Elements(s, i) ==
    IF s[i] = "]" THEN <<>>
    ELSE LET j == ParseValue(s, i)
         IN  <<SubSeq(s, i, j - 1)>> \o
             (IF s[j] = "," THEN Elements(s, j + 1) ELSE <<>>)

\* JSON.parse(s) for a text that starts with "[": throws unless s is one
\* JSON value; each element is kept as its own text
JsonParse(s) ==
    IF ParseValue(s, 1) = Len(s) + 1
    THEN [threw |-> FALSE, value |-> Elements(s, 2)]
    ELSE [threw |-> TRUE, value |-> <<>>]

\* the try block of generateAIRecommendations, from the provider's answer on
RecommendationsTry(outcome) ==
    IF outcome.kind # "text" THEN Thrown
    ELSE LET jsonMatch == JsonMatch(outcome.text)
         IN  IF jsonMatch = <<>> THEN Thrown
             ELSE LET recommendations == JsonParse(jsonMatch[1])
                  IN  IF recommendations.threw THEN Thrown
                      ELSE Returned(Slice(recommendations.value, 0, 6))

\* the catch block missing: a provider failure leaves the function
generateAIRecommendations_NoCatch(data, outcome) == RecommendationsTry(outcome)

generateAIRecommendations(data, outcome) ==
    LET tried == RecommendationsTry(outcome)
    IN  IF tried.threw THEN Returned(getFallbackRecommendations(data))
        ELSE tried

-----------------------------------------------------------------------------
(* module.exports: the handler *)

\* res.status(status).json({error}) or .end(): a response with no result
Respond(status, error) == [status |-> status, error |-> error, body |-> <<>>]

\* the catch block of the handler
AnalysisFailed == Respond(500, "Analysis failed")

\* && written for ||
MissingRequired_Both(body) == Falsy(body.url) /\ Falsy(body.email)

\* !url || !email
MissingRequired(body) == Falsy(body.url) \/ Falsy(body.email)

\* the Gemini credential left unchecked
EnvCheck_PageSpeedOnly(e) ==
    IF Falsy(e.PAGESPEED_API_KEY)
    THEN <<Respond(500, "PAGESPEED_API_KEY missing")>>
    ELSE <<>>

\* the configuration check: <<>> when both credentials are set, else the
\* error response
EnvCheck(e) ==
    IF Falsy(e.PAGESPEED_API_KEY)
    THEN <<Respond(500, "PAGESPEED_API_KEY missing")>>
    ELSE IF Falsy(e.GEMINI_API_KEY)
    THEN <<Respond(500, "GEMINI_API_KEY missing")>>
    ELSE <<>>

\* the configuration checked before the request
Precheck_EnvFirst(method, body, e) ==
    IF method = "OPTIONS" THEN <<Respond(200, "")>>
    ELSE IF method # "POST" THEN <<Respond(405, "Method not allowed")>>
    ELSE IF body = <<>> THEN <<AnalysisFailed>>
    ELSE IF EnvCheck(e) # <<>> THEN EnvCheck(e)
    ELSE IF MissingRequired(body[1])
    THEN <<Respond(400, "URL and email are required")>>
    ELSE <<>>

\* Everything the handler does before its first await: <<response>> when
\* it answers at once, <<>> when it goes on to the Performance Provider.
\* A request without a body makes the destructuring throw into the catch.
Precheck(method, body, e) ==
    IF method = "OPTIONS" THEN <<Respond(200, "")>>
    ELSE IF method # "POST" THEN <<Respond(405, "Method not allowed")>>
    ELSE IF body = <<>> THEN <<AnalysisFailed>>
    ELSE IF MissingRequired(body[1])
    THEN <<Respond(400, "URL and email are required")>>
    ELSE EnvCheck(e)

\* an outbound call; the Gemini prompt embeds the url and the four scores
PageSpeedCall(url) == [to |-> "pagespeed", url |-> url, scores |-> <<>>]
GeminiCall(url, data) ==
    [to |-> "gemini", url |-> url,
     scores |-> <<[performance |-> data.performance, seo |-> data.seo,
                   mobile |-> data.mobile,
                   accessibility |-> data.accessibility]>>]

\* the 200 document (the timestamp, a clock reading, is left out)
AuditResult(body, data, recommendations) ==
    [status |-> 200, error |-> "",
     body |-> <<[url |-> body.url, email |-> body.email,
                 name |-> IF Falsy(body.name) THEN "User" ELSE body.name,
                 overallScore |-> data.overallScore,
                 performance |-> data.performance,
                 seo |-> data.seo,
                 mobile |-> data.mobile,
                 accessibility |-> data.accessibility,
                 recommendations |-> recommendations]>>]

NoOutcome == [kind |-> "none"]

\* most analyze executions in progress at the same time
NumRequests == 2

\* no execution of the handler has begun
ExecsIdle ==
    execs = [i \in 1..NumRequests |->
                [pc |-> "idle", req |-> NoRequest, psOutcome |-> NoOutcome,
                 pageSpeedData |-> <<>>, aiOutcome |-> NoOutcome,
                 res |-> <<>>]]

Init ==
    /\ env \in [PAGESPEED_API_KEY : Keys, GEMINI_API_KEY : Keys]
    /\ pc = "idle"
    /\ req = NoRequest
    /\ calls = <<>>
    /\ psOutcome = NoOutcome
    /\ pageSpeedData = <<>>
    /\ aiOutcome = NoOutcome
    /\ res = <<>>
    /\ ExecsIdle
    /\ LeadIdle /\ PayIdle /\ PdfIdle /\ FormIdle

\* both provider calls issued at once, the recommendation prompt built
\* without the measured scores
Receive_Parallel ==
    /\ pc = "idle"
    /\ \E method \in Methods, body \in Bodies :
          LET early == Precheck(method, body, env)
          IN  /\ req' = [method |-> method, body |-> body]
              /\ IF early # <<>>
                 THEN /\ res' = early
                      /\ pc' = "done"
                      /\ calls' = calls
                 ELSE /\ res' = res
                      /\ pc' = "pagespeed"
                      /\ calls' = <<PageSpeedCall(body[1].url),
                                    GeminiCall(body[1].url, FallbackScores)>>
    /\ UNCHANGED <<env, psOutcome, pageSpeedData, aiOutcome, execs>>
    /\ UNCHANGED <<leadVars, payVars, pdfVars, formVars>>

\* A request arrives; the handler runs up to its first await or answers.
Receive ==
    /\ pc = "idle"
    /\ \E method \in Methods, body \in Bodies :
          LET early == Precheck(method, body, env)
          IN  /\ req' = [method |-> method, body |-> body]
              /\ IF early # <<>>
                 THEN /\ res' = early
                      /\ pc' = "done"
                      /\ calls' = calls
                 ELSE /\ res' = res
                      /\ pc' = "pagespeed"
                      /\ calls' = Append(calls, PageSpeedCall(body[1].url))
    /\ UNCHANGED <<env, psOutcome, pageSpeedData, aiOutcome, execs>>
    /\ UNCHANGED <<leadVars, payVars, pdfVars, formVars>>

\* The Performance Provider answers; getPageSpeedData returns and the
\* handler goes on to the Recommendation Provider call.
PageSpeedReturns ==
    /\ pc = "pagespeed"
    /\ \E outcome \in PageSpeedOutcomes :
          LET r == getPageSpeedData(outcome)
          IN  /\ psOutcome' = outcome
              /\ IF r.threw
                 THEN /\ res' = <<AnalysisFailed>>
                      /\ pc' = "done"
                      /\ UNCHANGED <<pageSpeedData, calls>>
                 ELSE /\ pageSpeedData' = r.value
                      /\ calls' = Append(calls,
                                     GeminiCall(req.body[1].url, r.value[1]))
                      /\ pc' = "gemini"
                      /\ res' = res
    /\ UNCHANGED <<env, req, aiOutcome, execs>>
    /\ UNCHANGED <<leadVars, payVars, pdfVars, formVars>>

\* The Recommendation Provider answers; generateAIRecommendations returns
\* and the handler sends its response.
GeminiReturns ==
    /\ pc = "gemini"
    /\ \E outcome \in GeminiOutcomes :
          LET r == generateAIRecommendations(pageSpeedData[1], outcome)
          IN  /\ aiOutcome' = outcome
              /\ res' = IF r.threw
                        THEN <<AnalysisFailed>>
                        ELSE <<AuditResult(req.body[1], pageSpeedData[1],
                                           r.value[1])>>
    /\ pc' = "done"
    /\ UNCHANGED <<env, req, calls, psOutcome, pageSpeedData, execs>>
    /\ UNCHANGED <<leadVars, payVars, pdfVars, formVars>>

Next == Receive \/ PageSpeedReturns \/ GeminiReturns

Spec == Init /\ [][Next]_vars

-----------------------------------------------------------------------------
(* Vocabulary of the properties *)

Blank(v) == v = Undefined \/ v = ""

\* the handler has taken a POST whose body carries these fields
PostWithBody == pc # "idle" /\ req.method = "POST" /\ req.body # <<>>

\* ... with non-empty url and email
ValidPost ==
    PostWithBody /\ ~Blank(req.body[1].url) /\ ~Blank(req.body[1].email)

Configured == ~Blank(env.PAGESPEED_API_KEY) /\ ~Blank(env.GEMINI_API_KEY)

\* the handler answered a POST with 200
Answered200 == pc = "done" /\ req.method = "POST" /\ res[1].status = 200

\* the AuditResult of a 200 answer
Result == res[1].body[1]

PageSpeedFailed == psOutcome.kind \in {"throw", "nocategories"}

\* some stretch of the text is a JSON array
ContainsArray(text) ==
    \E i \in 1..Len(text), j \in 1..Len(text) :
        /\ i < j
        /\ text[i] = "["
        /\ ParseValue(SubSeq(text, i, j), 1) = j - i + 2

\* the Recommendation Provider failed, or its text (empty, prose, broken
\* brackets) holds no JSON array at all
NoArrayFromProvider ==
    \/ aiOutcome.kind \in {"throw", "malformed"}
    \/ aiOutcome.kind = "text" /\ ~ContainsArray(aiOutcome.text)

Titles(list) == {list[i].title : i \in 1..Len(list)}

\* position of a rule-table entry in the table's fixed order, 0 for others
TableRank(r) ==
    CASE r = OptimizeImages         -> 1
      [] r = MinifyCssJs            -> 2
      [] r = ImproveMetaTags        -> 3
      [] r = FixHeadingStructure    -> 4
      [] r = MobileResponsiveDesign -> 5
      [] r = ImproveAccessibility   -> 6
      [] r = EnableBrowserCaching   -> 7
      [] r = InstallSslCertificate  -> 8
      [] OTHER                      -> 0

\* the list holds rule-table entries only, in table order, none twice
InTableOrder(list) ==
    /\ \A i \in 1..Len(list) : TableRank(list[i]) > 0
    /\ \A i \in 1..Len(list), j \in 1..Len(list) :
          i < j => TableRank(list[i]) < TableRank(list[j])

\* the category-specific entries are there exactly for the categories
\* scoring below 70
CategoryEntriesMatch(list, d) ==
    /\ ("Optimize Images" \in Titles(list)) <=> (d.performance < 70)
    /\ ("Minify CSS and JavaScript" \in Titles(list)) <=> (d.performance < 70)
    /\ ("Improve Meta Tags" \in Titles(list)) <=> (d.seo < 70)
    /\ ("Fix Heading Structure" \in Titles(list)) <=> (d.seo < 70)
    /\ ("Mobile Responsive Design" \in Titles(list)) <=> (d.mobile < 70)
    /\ ("Improve Accessibility" \in Titles(list)) <=> (d.accessibility < 70)

\* number of category-specific entries the profile calls for
SpecificCount(d) ==
    (IF d.performance < 70 THEN 2 ELSE 0) + (IF d.seo < 70 THEN 2 ELSE 0)
    + (IF d.mobile < 70 THEN 1 ELSE 0) + (IF d.accessibility < 70 THEN 1 ELSE 0)

-----------------------------------------------------------------------------
(* Properties *)

\* C1: every successful POST returns exactly 6 recommendations, whatever
\* the Recommendation Provider returned (shorter, longer, or a failure).
C1_ExactlySixRecommendations ==
    Answered200 => Len(Result.recommendations) = 6

\* C2: a POST with non-empty url and email and both credentials set is
\* answered 200 for every combination of provider outcomes.
C2_ProviderFailureNeverAnError ==
    (pc = "done" /\ ValidPost /\ Configured) => res[1].status = 200

\* a 200 answer after both provider calls threw
C2_Witness ==
    /\ Answered200
    /\ psOutcome.kind = "throw"
    /\ aiOutcome.kind = "throw"

\* C3: when the Performance Provider fails, the four categories and the
\* overall score are 50, and the Recommendation Provider is still called,
\* with those scores.
C3_PageSpeedFailureGivesFifty ==
    PageSpeedFailed =>
        /\ Len(calls) = 2
        /\ calls[2].to = "gemini"
        /\ calls[2].scores = <<[performance |-> 50, seo |-> 50, mobile |-> 50,
                                accessibility |-> 50]>>
        /\ pc = "done" =>
              /\ res[1].status = 200
              /\ Result.performance = 50
              /\ Result.seo = 50
              /\ Result.mobile = 50
              /\ Result.accessibility = 50
              /\ Result.overallScore = 50

\* a 200 answer after a payload without lighthouseResult.categories
C3_Witness ==
    /\ Answered200
    /\ psOutcome.kind = "nocategories"
    /\ Result.overallScore = 50

\* C4: a POST whose body lacks url or email (missing or empty) is answered
\* 400 and no provider call is issued in that execution.
C4_MissingFieldIs400WithoutCalls ==
    (PostWithBody /\ (Blank(req.body[1].url) \/ Blank(req.body[1].email))) =>
        /\ pc = "done"
        /\ res[1].status = 400
        /\ calls = <<>>

\* a 400 answer to a POST that has a url and an empty email
C4_Witness ==
    /\ PostWithBody
    /\ ~Blank(req.body[1].url)
    /\ req.body[1].email = ""
    /\ res[1].status = 400

\* C5 as stated: with a credential missing, every POST is answered 500
\* naming a missing credential, with no provider call.
C5_MissingCredentialIs500 ==
    (PostWithBody /\ ~Configured) =>
        /\ pc = "done"
        /\ res[1].status = 500
        /\ \/ res[1].error = "PAGESPEED_API_KEY missing"
              /\ Blank(env.PAGESPEED_API_KEY)
           \/ res[1].error = "GEMINI_API_KEY missing"
              /\ Blank(env.GEMINI_API_KEY)
        /\ calls = <<>>

\* C5 amended: with a credential missing, a POST with non-empty url and
\* email is answered 500 naming a missing credential, with no provider call.
C5_MissingCredentialIs500ForValidPost ==
    (ValidPost /\ ~Configured) =>
        /\ pc = "done"
        /\ res[1].status = 500
        /\ \/ res[1].error = "PAGESPEED_API_KEY missing"
              /\ Blank(env.PAGESPEED_API_KEY)
           \/ res[1].error = "GEMINI_API_KEY missing"
              /\ Blank(env.GEMINI_API_KEY)
        /\ calls = <<>>

\* a 500 answer naming the Gemini credential, the only one missing
C5_Witness ==
    /\ ValidPost
    /\ ~Blank(env.PAGESPEED_API_KEY)
    /\ Blank(env.GEMINI_API_KEY)
    /\ res[1].error = "GEMINI_API_KEY missing"

\* C6: in every AuditResult, overallScore is the mean of the four returned
\* category scores rounded to the nearest integer, halves up, on the
\* provider-success path and on the fallback path alike.
C6_OverallIsRoundedMean ==
    Answered200 =>
        LET sum == Result.performance + Result.seo + Result.accessibility
                   + Result.mobile
        IN  /\ 4 * Result.overallScore - 2 <= sum
            /\ sum <= 4 * Result.overallScore + 1

\* an AuditResult from provider scores whose mean ends in one half
C6_Witness ==
    /\ Answered200
    /\ psOutcome.kind = "ok"
    /\ (Result.performance + Result.seo + Result.accessibility
        + Result.mobile) % 4 = 2

\* C7: whenever the Performance Provider returns category scores, mobile
\* is the mean of the rounded performance and best-practices scores,
\* rounded to the nearest integer, halves up; 80 and 60 give 70.
C7_MobileIsRoundedMean ==
    /\ Mobile(80, 60) = 70
    /\ (psOutcome.kind = "ok" /\ pageSpeedData # <<>>) =>
          LET sum == pageSpeedData[1].performance
                     + BestPractices(psOutcome.categories)
          IN  /\ 2 * pageSpeedData[1].mobile - 1 <= sum
              /\ sum <= 2 * pageSpeedData[1].mobile

\* scores returned with an odd sum of performance and best practices
C7_Witness ==
    /\ psOutcome.kind = "ok"
    /\ pageSpeedData # <<>>
    /\ (pageSpeedData[1].performance
        + BestPractices(psOutcome.categories)) % 2 = 1

\* the profile of the example: performance 40, the other three 90
ExampleProfile ==
    [overallScore |-> 78, performance |-> 40, seo |-> 90, mobile |-> 90,
     accessibility |-> 90]

\* C8: when the Recommendation Provider fails or returns empty or non-JSON
\* text, the list is the rule-table fallback for the score profile: rule
\* table entries in table order, a category's entries present exactly when
\* its score is below 70; performance 40 with the rest at 90 gives
\* "Optimize Images" and no mobile or accessibility entry.
C8_FallbackMatchesProfile ==
    /\ "Optimize Images" \in Titles(getFallbackRecommendations(ExampleProfile))
    /\ CategoryEntriesMatch(getFallbackRecommendations(ExampleProfile),
                            ExampleProfile)
    /\ (Answered200 /\ NoArrayFromProvider) =>
          /\ InTableOrder(Result.recommendations)
          /\ CategoryEntriesMatch(Result.recommendations, Result)

\* prose without brackets answered with the seo entries and no
\* performance entry, performance being exactly 70
C8_Witness ==
    /\ Answered200
    /\ aiOutcome = [kind |-> "text", text |-> <<"p">>]
    /\ Result.performance = 70
    /\ Result.seo < 70
    /\ "Improve Meta Tags" \in Titles(Result.recommendations)
    /\ "Optimize Images" \notin Titles(Result.recommendations)

\* C9 as stated: for every score profile the fallback list contains the
\* SSL recommendation.
C9_FallbackAlwaysHasSsl ==
    (Answered200 /\ NoArrayFromProvider) =>
        \E i \in 1..Len(Result.recommendations) :
            Result.recommendations[i] = InstallSslCertificate

\* C9 amended: the fallback list contains the SSL recommendation exactly
\* for the score profiles that call for fewer than five category-specific
\* entries.
C9_FallbackHasSslBelowFive ==
    (Answered200 /\ NoArrayFromProvider) =>
        ((\E i \in 1..Len(Result.recommendations) :
             Result.recommendations[i] = InstallSslCertificate)
         <=> SpecificCount(Result) < 5)

\* a fallback list with four category-specific entries and the SSL entry
C9_Witness ==
    /\ Answered200
    /\ NoArrayFromProvider
    /\ SpecificCount(Result) = 4
    /\ Len(Result.recommendations) = 6
    /\ Result.recommendations[6] = InstallSslCertificate

\* C10: every 200 answer to a POST carries a non-empty recommendations
\* list, for every Recommendation Provider output.
C10_RecommendationsNeverEmpty ==
    Answered200 => Result.recommendations # <<>>

\* the four scores a Recommendation Provider call was built from
PromptScores(data) ==
    [performance |-> data.performance, seo |-> data.seo,
     mobile |-> data.mobile, accessibility |-> data.accessibility]

\* C19: the Recommendation Provider call is issued only after the
\* Performance Provider call has completed, with its result or with the
\* fallback, and is built from that outcome; while the first call is in
\* flight no second call exists; each provider is called at most once.
C19_ProviderCallsOneAfterAnother ==
    /\ Len(calls) <= 2
    /\ Len(calls) >= 1 => calls[1].to = "pagespeed"
    /\ pc = "pagespeed" => Len(calls) = 1 /\ psOutcome.kind = "none"
    /\ pc = "gemini" => Len(calls) = 2
    /\ Len(calls) = 2
       => /\ calls[2].to = "gemini"
          /\ psOutcome.kind # "none"
          /\ pageSpeedData # <<>>
          /\ calls[2].scores = <<PromptScores(pageSpeedData[1])>>

C19_Witness ==
    /\ pc = "gemini"
    /\ psOutcome.kind = "throw"
    /\ Len(calls) = 2
    /\ calls[2].scores = <<PromptScores(FallbackScores)>>

\* where the first JSON array of the text starts: 0 when there is none
FirstArrayStart(text) ==
    LET starts == {i \in 1..Len(text) :
                      text[i] = "[" /\ ParseValue(text, i) # 0}
    IN  IF starts = {} THEN 0 ELSE SetMin(starts)

\* the first JSON array of a text that has one
FirstArray(text) ==
    SubSeq(text, FirstArrayStart(text),
           ParseValue(text, FirstArrayStart(text)) - 1)

\* C20: when the Recommendation Provider's text holds a JSON array, with
\* whatever prose or brackets before and after it, the answer carries the
\* items of the first such array, cut to 6.
C20_FirstArrayExtracted ==
    (Answered200 /\ aiOutcome.kind = "text"
       /\ FirstArrayStart(aiOutcome.text) # 0)
    => Result.recommendations
          = Slice(Elements(FirstArray(aiOutcome.text), 2), 0, 6)

-----------------------------------------------------------------------------
(* The lead-capture handler (src/api/lead-capture.js) *)

\* most lead-capture requests served one after another
MaxLeadCalls == 3

AnalyzeIdle ==
    /\ env = [PAGESPEED_API_KEY |-> Undefined, GEMINI_API_KEY |-> Undefined]
    /\ pc = "idle"
    /\ req = NoRequest
    /\ calls = <<>>
    /\ psOutcome = NoOutcome
    /\ pageSpeedData = <<>>
    /\ aiOutcome = NoOutcome
    /\ res = <<>>
    /\ ExecsIdle

\* the value null
Null == "<null>"

\* v || null for a string or undefined
OrNull(v) == IF Falsy(v) THEN Null ELSE v

LeadTypes  == {Undefined, "", "report"}
LeadEmails == {Undefined, "", "ann@a.example", "bob@a.example"}
LeadNames  == {Undefined, "Ann Lee"}

\* the stored audit result the client sends along: <<>> when absent
LeadAudits == {<<>>, <<[url |-> "https://a.example", overallScore |-> 72]>>}

LeadBodies ==
    {<<>>} \cup
    {<<[type |-> t, name |-> n, email |-> e, phone |-> Undefined,
        company |-> Undefined, message |-> Undefined, auditResults |-> a]>> :
        t \in LeadTypes, n \in LeadNames, e \in LeadEmails, a \in LeadAudits}

LeadEnvs ==
    [SUPABASE_URL : {Undefined, "https://db.example"},
     SUPABASE_KEY : {Undefined, "key"},
     ZOHO_WEBHOOK_URL : {Undefined, "https://hook.example"}]

\* a response of the handler: leadId is <<>> or <<id>>
LeadRespond(status, error) ==
    [status |-> status, error |-> error, success |-> FALSE, leadId |-> <<>>,
     type |-> ""]

\* the catch block of the handler
LeadFailed == LeadRespond(500, "Failed to capture lead")

LeadSuccess(saved, type) ==
    [status |-> 200, error |-> "", success |-> TRUE, leadId |-> <<saved.id>>,
     type |-> type]

\* type present and email missing taken for valid
LeadMissingRequired_TypeOnly(body) == Falsy(body.type)

\* !type || !email
LeadMissingRequired(body) == Falsy(body.type) \/ Falsy(body.email)

\* Everything the handler does before its first await: <<response>> when
\* it answers at once, <<>> when it goes on to the insert.
LeadPrecheck(method, body, e) ==
    IF method = "OPTIONS" THEN <<LeadRespond(200, "")>>
    ELSE IF method # "POST" THEN <<LeadRespond(405, "Method not allowed")>>
    ELSE IF body = <<>> THEN <<LeadFailed>>
    ELSE IF LeadMissingRequired(body[1])
    THEN <<LeadRespond(400, "Type and email are required")>>
    ELSE IF Falsy(e.SUPABASE_URL) \/ Falsy(e.SUPABASE_KEY)
    THEN <<LeadRespond(500, "Database configuration missing")>>
    ELSE <<>>

\* the object leadData
LeadData(body) ==
    [type |-> body.type,
     name |-> OrNull(body.name),
     email |-> body.email,
     phone |-> OrNull(body.phone),
     company |-> OrNull(body.company),
     message |-> OrNull(body.message),
     website_url |-> IF body.auditResults = <<>> THEN Null
                     ELSE OrNull(body.auditResults[1].url),
     audit_score |-> IF body.auditResults = <<>>
                        \/ body.auditResults[1].overallScore = 0
                     THEN <<>>
                     ELSE <<body.auditResults[1].overallScore>>,
     audit_data |-> body.auditResults,
     status |-> "new",
     zoho_synced |-> FALSE]

\* the row the table makes of leadData: the table assigns the id
LeadRow(table, d) ==
    [id |-> Len(table) + 1, type |-> d.type, name |-> d.name,
     email |-> d.email, phone |-> d.phone, company |-> d.company,
     message |-> d.message, website_url |-> d.website_url,
     audit_score |-> d.audit_score, audit_data |-> d.audit_data,
     status |-> d.status, zoho_synced |-> d.zoho_synced]

\* an upsert on email: a row with the same email is replaced
InsertRow_UpsertByEmail(table, d) ==
    IF \E i \in 1..Len(table) : table[i].email = d.email
    THEN LET i == CHOOSE k \in 1..Len(table) : table[k].email = d.email
         IN  [table EXCEPT ![i] = [LeadRow(table, d) EXCEPT !.id = table[i].id]]
    ELSE Append(table, LeadRow(table, d))

\* supabase.from('leads').insert([leadData]) when it succeeds
InsertRow(table, d) == Append(table, LeadRow(table, d))

\* what the insert may come to: done, an error reported, a rejected call
InsertOutcomes == {"ok", "error", "throw"}
\* what the CRM relay and the team notification may come to
SideOutcomes == {"ok", "throw"}

\* the error check left out
AfterInsert_Ignore(outcome) == IF outcome = "throw" THEN "fail" ELSE "continue"

\* lines 55-66: the handler goes on only when the insert reported no error
AfterInsert(outcome) == IF outcome = "ok" THEN "continue" ELSE "fail"

\* the try/catch left out: a failing relay leaves the block
AfterZoho_NoCatch(outcome) == IF outcome = "throw" THEN "fail" ELSE "continue"

\* lines 73-80: a failing relay is caught and logged
AfterZoho(outcome) == "continue"

\* lines 83-87: a failing notification is caught and logged
AfterNotify(outcome) == "continue"

\* the row marked as synced once the relay has succeeded
RowsAfterZoho_MarkSynced(table, saved, outcome) ==
    IF outcome = "ok"
    THEN [table EXCEPT ![saved.id] = [@ EXCEPT !.zoho_synced = TRUE]]
    ELSE table

\* lines 73-80: the table after the relay; the handler writes nothing back
RowsAfterZoho(table, saved, outcome) == table

\* the relay attempted whether the webhook is configured or not
RelayConfigured_Always(e) == TRUE

\* line 74: if (process.env.ZOHO_WEBHOOK_URL)
RelayConfigured(e) == ~Falsy(e.ZOHO_WEBHOOK_URL)

Logged(op, outcome) == [op |-> op, outcome |-> outcome]

LeadInit ==
    /\ leadEnv \in LeadEnvs
    /\ leadPc = "idle"
    /\ leadReq = NoRequest
    /\ leads = <<>>
    /\ savedLead = <<>>
    /\ leadLog = <<>>
    /\ leadRes = <<>>
    /\ leadHistory = <<>>
    /\ AnalyzeIdle /\ PayIdle /\ PdfIdle /\ FormIdle

\* A request arrives; the handler runs up to the insert or answers.
LeadReceive ==
    /\ leadPc = "idle"
    /\ \E method \in Methods, body \in LeadBodies :
          LET early == LeadPrecheck(method, body, leadEnv)
          IN  /\ leadReq' = [method |-> method, body |-> body]
              /\ IF early # <<>>
                 THEN leadRes' = early /\ leadPc' = "done"
                 ELSE leadRes' = leadRes /\ leadPc' = "insert"
    /\ UNCHANGED <<leadEnv, leads, savedLead, leadLog, leadHistory>>
    /\ UNCHANGED <<analyzeVars, payVars, pdfVars, formVars>>

\* The insert returns; on success the handler goes on to the CRM relay if
\* the webhook is configured, else to the team notification.
LeadInsertReturns ==
    /\ leadPc = "insert"
    /\ \E outcome \in InsertOutcomes :
          LET table == IF outcome = "ok"
                       THEN InsertRow(leads, LeadData(leadReq.body[1]))
                       ELSE leads
              saved == IF outcome = "ok" THEN <<table[Len(table)]>> ELSE <<>>
          IN  /\ leads' = table
              /\ savedLead' = saved
              /\ leadLog' = Append(leadLog, Logged("insert", outcome))
              /\ IF AfterInsert(outcome) = "fail"
                 THEN leadRes' = <<LeadFailed>> /\ leadPc' = "done"
                 ELSE /\ leadRes' = leadRes
                      /\ leadPc' = IF RelayConfigured(leadEnv)
                                   THEN "zoho" ELSE "notify"
    /\ UNCHANGED <<leadEnv, leadReq, leadHistory>>
    /\ UNCHANGED <<analyzeVars, payVars, pdfVars, formVars>>

\* The CRM relay returns or throws.
LeadZohoReturns ==
    /\ leadPc = "zoho"
    /\ \E outcome \in SideOutcomes :
          /\ leadLog' = Append(leadLog, Logged("zoho", outcome))
          /\ IF AfterZoho(outcome) = "fail"
             THEN leadRes' = <<LeadFailed>> /\ leadPc' = "done"
             ELSE leadRes' = leadRes /\ leadPc' = "notify"
          /\ leads' = RowsAfterZoho(leads, savedLead[1], outcome)
    /\ UNCHANGED <<leadEnv, leadReq, savedLead, leadHistory>>
    /\ UNCHANGED <<analyzeVars, payVars, pdfVars, formVars>>

\* The team notification returns or throws; the handler answers. Reading
\* savedLead.id of a null savedLead throws into the catch block.
LeadNotifyReturns ==
    /\ leadPc = "notify"
    /\ \E outcome \in SideOutcomes :
          /\ leadLog' = Append(leadLog, Logged("notify", outcome))
          /\ leadRes' = IF AfterNotify(outcome) = "fail" \/ savedLead = <<>>
                        THEN <<LeadFailed>>
                        ELSE <<LeadSuccess(savedLead[1],
                                           leadReq.body[1].type)>>
    /\ leadPc' = "done"
    /\ UNCHANGED <<leadEnv, leadReq, leads, savedLead, leadHistory>>
    /\ UNCHANGED <<analyzeVars, payVars, pdfVars, formVars>>

\* The platform is ready for the next request.
LeadAgain ==
    /\ leadPc = "done"
    /\ Len(leadHistory) + 1 < MaxLeadCalls
    /\ leadHistory' = Append(leadHistory, leadRes[1])
    /\ leadPc' = "idle"
    /\ leadReq' = NoRequest
    /\ savedLead' = <<>>
    /\ leadLog' = <<>>
    /\ leadRes' = <<>>
    /\ UNCHANGED <<leadEnv, leads>>
    /\ UNCHANGED <<analyzeVars, payVars, pdfVars, formVars>>

NextLead ==
    \/ LeadReceive
    \/ LeadInsertReturns
    \/ LeadZohoReturns
    \/ LeadNotifyReturns
    \/ LeadAgain

SpecLead == LeadInit /\ [][NextLead]_vars

-----------------------------------------------------------------------------
(* Claims about the lead-capture handler, checked under SpecLead *)

Range(seq) == {seq[i] : i \in 1..Len(seq)}

LeadPostWithBody == leadReq.method = "POST" /\ leadReq.body # <<>>

LeadAnswered(status) ==
    leadPc = "done" /\ leadRes # <<>> /\ leadRes[1].status = status

\* the successful answers given so far, the current one not counted
SuccessCount(history) ==
    Cardinality({i \in 1..Len(history) : history[i].success})

\* C11: a POST whose body lacks type or lacks email is answered 400, and in
\* that execution no insert, no CRM relay and no team notification is made:
\* the handler never leaves for the insert and its call log stays empty.
C11_MissingTypeOrEmailIs400WithoutCalls ==
    (LeadPostWithBody
       /\ (Blank(leadReq.body[1].type) \/ Blank(leadReq.body[1].email)))
    => /\ LeadAnswered(400)
       /\ leadRes[1].error = "Type and email are required"
       /\ leadLog = <<>>
       /\ savedLead = <<>>
       /\ Len(leads) = SuccessCount(leadHistory)

C11_Witness ==
    /\ LeadPostWithBody
    /\ ~Blank(leadReq.body[1].type)
    /\ Blank(leadReq.body[1].email)
    /\ ~Falsy(leadEnv.SUPABASE_URL) /\ ~Falsy(leadEnv.SUPABASE_KEY)
    /\ LeadAnswered(400)

\* C12: every call whose insert succeeds adds exactly one row, whatever the
\* table already holds: the table has one row per successful insert, the
\* k-th row has id k, and rows with the same email stand side by side.
C12_OneRowPerSuccessfulInsert ==
    /\ Len(leads) = SuccessCount(leadHistory)
                    + (IF Logged("insert", "ok") \in Range(leadLog)
                       THEN 1 ELSE 0)
    /\ \A i \in 1..Len(leads) : leads[i].id = i
    /\ savedLead # <<>> => savedLead[1] = leads[Len(leads)]

C12_Witness ==
    /\ Len(leads) = 3
    /\ leads[1].email = leads[2].email
    /\ leads[2].email = leads[3].email
    /\ LeadAnswered(200)

\* C13: when the CRM relay throws, or the team notification throws, the
\* row stays in the table and the answer is 200 with success = true and
\* leadId the id of the row this execution inserted.
C13_SideFailureStillSucceeds ==
    (leadPc = "done"
       /\ (Logged("zoho", "throw") \in Range(leadLog)
           \/ Logged("notify", "throw") \in Range(leadLog)))
    => /\ LeadAnswered(200)
       /\ leadRes[1].success
       /\ savedLead # <<>>
       /\ savedLead[1] = leads[Len(leads)]
       /\ leadRes[1].leadId = <<leads[Len(leads)].id>>

C13_Witness ==
    /\ Logged("zoho", "throw") \in Range(leadLog)
    /\ Logged("notify", "throw") \in Range(leadLog)
    /\ LeadAnswered(200)
    /\ leadRes[1].leadId = <<2>>

\* C14: a success answer is given only when this execution persisted a
\* row; when the insert reports an error the answer is 500 and neither the
\* CRM relay nor the team notification is attempted.
C14_SuccessOnlyIfPersisted ==
    /\ (leadRes # <<>> /\ leadRes[1].success)
       => /\ Logged("insert", "ok") \in Range(leadLog)
          /\ savedLead # <<>>
          /\ savedLead[1] \in Range(leads)
          /\ leadRes[1].leadId = <<savedLead[1].id>>
    /\ Logged("insert", "error") \in Range(leadLog)
       => /\ LeadAnswered(500)
          /\ leadLog = <<Logged("insert", "error")>>
          /\ savedLead = <<>>
          /\ Len(leads) = SuccessCount(leadHistory)

C14_Witness ==
    /\ Logged("insert", "error") \in Range(leadLog)
    /\ ~Falsy(leadEnv.ZOHO_WEBHOOK_URL)
    /\ Len(leads) = 1
    /\ LeadAnswered(500)

-----------------------------------------------------------------------------
(* The create-payment handler (src/api/create-payment.js) *)

\* most create-payment requests served one after another
MaxPayCalls == 3

PayEmails  == {Undefined, "ann@a.example"}
PayUrls    == {Undefined, "https://a.example"}
\* req.body.amount: <<>> when absent, else <<the number>>
PayAmounts == {<<>>, <<1>>, <<499>>}

PayBodies ==
    {<<>>} \cup
    {<<[email |-> e, url |-> u, amount |-> a]>> :
        e \in PayEmails, u \in PayUrls, a \in PayAmounts}

\* a response of the handler: sessionId is <<>> or <<id>>
PayRespond(status, error) ==
    [status |-> status, error |-> error, sessionId |-> <<>>]

\* the catch block of the handler
PayFailed == PayRespond(500, "Payment creation failed")

PaySuccess(session) ==
    [status |-> 200, error |-> "", sessionId |-> <<session.id>>]

\* amount * 100: <<>> is NaN, the product with undefined
UnitAmount(amount) == IF amount = <<>> THEN <<>> ELSE <<amount[1] * 100>>

\* the first argument of stripe.checkout.sessions.create
SessionParams(body) ==
    [unit_amount |-> UnitAmount(body.amount),
     customer_email |-> body.email,
     website_url |-> body.url,
     email |-> body.email]

\* a key made of the request's email and url
IdempotencyKey_FromBody(body) == <<body.email, body.url>>

\* the second argument of stripe.checkout.sessions.create: none is passed
IdempotencyKey(body) == <<>>

\* The provider refuses a unit_amount that is not an integer.
ProviderAccepts(params) == params.unit_amount # <<>>

\* The provider's session for a create call: with an idempotency key already
\* seen the session made under that key, else a new one.
ReusedSession(table, key) ==
    {i \in 1..Len(table) : key # <<>> /\ table[i].key = key}

StripeCreate(table, params, key) ==
    IF ReusedSession(table, key) # {}
    THEN table
    ELSE Append(table,
                [id |-> Len(table) + 1,
                 unit_amount |-> params.unit_amount[1],
                 customer_email |-> params.customer_email,
                 website_url |-> params.website_url,
                 email |-> params.email,
                 key |-> key])

CreatedSession(table, key) ==
    IF ReusedSession(table, key) # {}
    THEN table[CHOOSE i \in ReusedSession(table, key) : TRUE]
    ELSE table[Len(table)]

\* what a call to the provider may come to besides its own validation
StripeOutcomes == {"ok", "throw"}

\* Everything the handler does before its await.
PayPrecheck(method, body) ==
    IF method = "OPTIONS" THEN <<PayRespond(200, "")>>
    ELSE IF method # "POST" THEN <<PayRespond(405, "Method not allowed")>>
    ELSE IF body = <<>> THEN <<PayFailed>>
    ELSE <<>>

PayInit ==
    /\ payPc = "idle"
    /\ payReq = NoRequest
    /\ sessions = <<>>
    /\ payRes = <<>>
    /\ payHistory = <<>>
    /\ AnalyzeIdle /\ LeadIdle /\ PdfIdle /\ FormIdle

\* A request arrives; the handler runs up to the provider call or answers.
PayReceive ==
    /\ payPc = "idle"
    /\ \E method \in Methods, body \in PayBodies :
          LET early == PayPrecheck(method, body)
          IN  /\ payReq' = [method |-> method, body |-> body]
              /\ IF early # <<>>
                 THEN payRes' = early /\ payPc' = "done"
                 ELSE payRes' = payRes /\ payPc' = "stripe"
    /\ UNCHANGED <<sessions, payHistory>>
    /\ UNCHANGED <<analyzeVars, leadVars, pdfVars, formVars>>

\* The provider call returns a session or throws; the handler answers.
PayStripeReturns ==
    /\ payPc = "stripe"
    /\ \E outcome \in StripeOutcomes :
          LET body   == payReq.body[1]
              params == SessionParams(body)
              key    == IdempotencyKey(body)
          IN  IF outcome = "ok" /\ ProviderAccepts(params)
              THEN /\ sessions' = StripeCreate(sessions, params, key)
                   /\ payRes' = <<PaySuccess(CreatedSession(sessions', key))>>
              ELSE /\ sessions' = sessions
                   /\ payRes' = <<PayFailed>>
    /\ payPc' = "done"
    /\ UNCHANGED <<payReq, payHistory>>
    /\ UNCHANGED <<analyzeVars, leadVars, pdfVars, formVars>>

\* The platform is ready for the next request; the answer given is kept.
PayAgain ==
    /\ payPc = "done"
    /\ Len(payHistory) + 1 < MaxPayCalls
    /\ payHistory' = Append(payHistory, payRes[1])
    /\ payPc' = "idle"
    /\ payReq' = NoRequest
    /\ payRes' = <<>>
    /\ UNCHANGED sessions
    /\ UNCHANGED <<analyzeVars, leadVars, pdfVars, formVars>>

NextPay ==
    \/ PayReceive
    \/ PayStripeReturns
    \/ PayAgain

SpecPay == PayInit /\ [][NextPay]_vars

-----------------------------------------------------------------------------
(* Claims about the create-payment handler, checked under SpecPay *)

PayAnswered(status) ==
    payPc = "done" /\ payRes # <<>> /\ payRes[1].status = status

\* the answers given so far that carry a session, the current one included
SessionAnswers ==
    {i \in 1..Len(payHistory) : payHistory[i].sessionId # <<>>}
    \cup {Len(payHistory) + 1 : x \in {y \in Range(payRes) : y.sessionId # <<>>}}

AnswerAt(i) == IF i <= Len(payHistory) THEN payHistory[i] ELSE payRes[1]

SameOrder(s, t) ==
    /\ s.unit_amount = t.unit_amount
    /\ s.customer_email = t.customer_email
    /\ s.website_url = t.website_url
    /\ s.email = t.email

\* C15: every POST that the provider serves creates a new checkout session:
\* there are as many sessions as answers carrying one, each answer names a
\* session of its own, and no session was made under an idempotency key,
\* also when the requests are identical.
C15_EveryPostCreatesASession ==
    /\ Len(sessions) = Cardinality(SessionAnswers)
    /\ \A i \in 1..Len(sessions) :
          sessions[i].id = i /\ sessions[i].key = <<>>
    /\ \A i, j \in SessionAnswers :
          i # j => AnswerAt(i).sessionId # AnswerAt(j).sessionId
    /\ PayAnswered(200) /\ payReq.method = "POST"
       => payRes[1].sessionId = <<Len(sessions)>>

C15_Witness ==
    /\ Len(sessions) = 3
    /\ SameOrder(sessions[1], sessions[2])
    /\ SameOrder(sessions[2], sessions[3])
    /\ Cardinality({sessions[i].id : i \in 1..3}) = 3
    /\ PayAnswered(200)

\* C16: every checkout session is for one fixed amount, the same for every
\* request, and carries the email and url of the request that made it.
C16_FixedAmountTiedToRequest ==
    /\ \A i, j \in 1..Len(sessions) :
          sessions[i].unit_amount = sessions[j].unit_amount
    /\ PayAnswered(200) /\ payReq.method = "POST"
       => LET s == sessions[payRes[1].sessionId[1]]
          IN  /\ s.customer_email = payReq.body[1].email
              /\ s.website_url = payReq.body[1].url
              /\ s.email = payReq.body[1].email

-----------------------------------------------------------------------------
(* The handler exported by src/api/generate-pdf.js *)

\* The file assigns module.exports twice; a later assignment replaces the
\* earlier one, so the platform invokes the last.
ModuleExports == <<"verifyPayment", "analyze">>
Exported == ModuleExports[Len(ModuleExports)]

PdfSessionIds == {Undefined, "cs_paid", "cs_unpaid", "cs_unknown"}

PdfBodies ==
    {<<>>} \cup
    {<<[sessionId |-> i, url |-> u, email |-> e, name |-> Undefined]>> :
        i \in PdfSessionIds, u \in PayUrls, e \in PayEmails}

\* the checkout sessions the payment provider holds
ProviderSessions ==
    {[id |-> "cs_paid", payment_status |-> "paid",
      website_url |-> "https://a.example"],
     [id |-> "cs_unpaid", payment_status |-> "unpaid",
      website_url |-> "https://a.example"]}

\* stripe.checkout.sessions.retrieve(sessionId): throws when the provider
\* is unreachable or holds no such session
Retrieve(sessionId, up) ==
    IF up /\ \E x \in ProviderSessions : x.id = sessionId
    THEN Returned(CHOOSE x \in ProviderSessions : x.id = sessionId)
    ELSE Thrown

\* a response: report is <<>> or <<the report stub>>, audit is <<>> or
\* <<the audit result>>
PdfRespond(status, error) ==
    [status |-> status, error |-> error, report |-> <<>>, audit |-> <<>>]

generateDetailedReport(url) == [url |-> url]

\* The first handler of the file, which the second assignment replaces:
\* its answer and the provider calls it makes.
VerifyPayment(method, body, up) ==
    IF method # "POST"
    THEN [res |-> PdfRespond(405, "Method not allowed"), calls |-> <<>>]
    ELSE IF body = <<>>
    THEN [res |-> PdfRespond(500, "Report generation failed"), calls |-> <<>>]
    ELSE LET session == Retrieve(body[1].sessionId, up)
         IN  IF session.threw
             THEN [res |-> PdfRespond(500, "Report generation failed"),
                   calls |-> <<"retrieve">>]
             ELSE IF session.value[1].payment_status # "paid"
             THEN [res |-> PdfRespond(400, "Payment not completed"),
                   calls |-> <<"retrieve">>]
             ELSE [res |-> [status |-> 200, error |-> "",
                            report |-> <<generateDetailedReport(
                                           session.value[1].website_url)>>,
                            audit |-> <<>>],
                   calls |-> <<"retrieve">>]

\* The second handler before its first await.
PdfPrecheck(method, body) ==
    IF method = "OPTIONS" THEN <<PdfRespond(200, "")>>
    ELSE IF method # "POST" THEN <<PdfRespond(405, "Method not allowed")>>
    ELSE IF body = <<>> THEN <<PdfRespond(500, "Analysis failed")>>
    ELSE IF Falsy(body[1].url) \/ Falsy(body[1].email)
    THEN <<PdfRespond(400, "URL and email are required")>>
    ELSE <<>>

\* the file's own fallback table
PdfOptimizeImages == Recommendation("Optimize Images",
    "Large images are slowing down your website. Compress images using tools like TinyPNG or convert to modern formats like WebP. Aim to reduce image sizes by 60-80% without quality loss.",
    "High", "Can improve page load speed by 2-5 seconds")
PdfEnableBrowserCaching == Recommendation("Enable Browser Caching",
    "Configure your server to cache static resources (CSS, JS, images) for longer periods. This reduces server requests for returning visitors and speeds up page loads.",
    "High", "50% faster load times for return visitors")
PdfAddMissingMetaTags == Recommendation("Add Missing Meta Tags",
    "Your website is missing important meta tags like meta description, Open Graph tags, and Twitter cards. These help search engines understand your content and improve click-through rates.",
    "High", "Better search rankings and social media sharing")
PdfImplementStructuredData == Recommendation("Implement Structured Data",
    "Add JSON-LD structured data to help search engines better understand your business. This can enable rich snippets in search results (ratings, prices, events).",
    "Medium", "Enhanced search appearance and 20-30% higher CTR")
PdfImproveMobileResponsiveness == Recommendation("Improve Mobile Responsiveness",
    "Your website has mobile usability issues. Ensure text is readable without zooming, tap targets are appropriately sized (48x48px minimum), and content fits the screen width.",
    "High", "Better mobile user experience and rankings")
PdfFixAccessibilityIssues == Recommendation("Fix Accessibility Issues",
    "Add alt text to all images, ensure sufficient color contrast (4.5:1 for normal text), and add ARIA labels to interactive elements. This makes your site usable for everyone.",
    "Medium", "Reach 15% more users and comply with standards")
PdfMinifyCssJs == Recommendation("Minify CSS and JavaScript",
    "Reduce file sizes by removing unnecessary characters, whitespace, and comments from your CSS and JavaScript files. Use tools like UglifyJS or online minifiers.",
    "Medium", "10-30% reduction in page size")
PdfAddSslCertificate == Recommendation("Add SSL Certificate",
    "If not already installed, add an SSL certificate (HTTPS) to your website. This is now a ranking factor and essential for user trust and security.",
    "High", "Better SEO rankings and user trust")

PdfGetFallbackRecommendations(data) ==
    LET l1 == PushIf(data.performance < 70, <<>>,
                     <<PdfOptimizeImages, PdfEnableBrowserCaching>>)
        l2 == PushIf(data.seo < 70, l1,
                     <<PdfAddMissingMetaTags, PdfImplementStructuredData>>)
        l3 == PushIf(data.mobile < 70, l2, <<PdfImproveMobileResponsiveness>>)
        l4 == PushIf(data.accessibility < 70, l3, <<PdfFixAccessibilityIssues>>)
        l5 == l4 \o <<PdfMinifyCssJs, PdfAddSslCertificate>>
    IN  Slice(l5, 0, 6)

\* the file's generateAIRecommendations: the parsed array is returned whole
PdfGenerateAIRecommendations(data, outcome) ==
    IF outcome.kind # "text" THEN PdfGetFallbackRecommendations(data)
    ELSE LET jsonMatch == JsonMatch(outcome.text)
         IN  IF jsonMatch = <<>> THEN PdfGetFallbackRecommendations(data)
             ELSE LET recommendations == JsonParse(jsonMatch[1])
                  IN  IF recommendations.threw
                      THEN PdfGetFallbackRecommendations(data)
                      ELSE recommendations.value

\* the answers of the two providers this specification draws from
PdfScoreProfiles == {<<>>, <<285>>, <<695>>, <<1000>>}
PdfPageSpeedOutcomes ==
    {o \in PageSpeedOutcomes :
        o.kind = "ok" =>
            /\ o.categories.performance \in PdfScoreProfiles
            /\ o.categories.seo = o.categories.performance
            /\ o.categories.accessibility \in {<<285>>, <<1000>>}
            /\ o.categories.bestPractices = o.categories.performance}
PdfGeminiOutcomes ==
    {o \in GeminiOutcomes :
        o.kind = "text" =>
            o.text \in {<<>>, <<"p">>, ArrayText(0), ArrayText(2),
                        <<"p">> \o ArrayText(7) \o <<"p">>,
                        <<"[", "p", "]">> \o ArrayText(1)}}

PdfAuditResult(body, data, recommendations) ==
    [status |-> 200, error |-> "", report |-> <<>>,
     audit |-> <<[url |-> body.url, email |-> body.email, name |-> body.name,
                  overallScore |-> data.overallScore,
                  performance |-> data.performance,
                  seo |-> data.seo,
                  mobile |-> data.mobile,
                  accessibility |-> data.accessibility,
                  recommendations |-> recommendations]>>]

PdfInit ==
    /\ pdfPc = "idle"
    /\ pdfReq = NoRequest
    /\ pdfCalls = <<>>
    /\ pdfData = <<>>
    /\ pdfRes = <<>>
    /\ AnalyzeIdle /\ LeadIdle /\ PayIdle /\ FormIdle

\* A request arrives and the exported handler runs up to its first await.
PdfReceive ==
    /\ pdfPc = "idle"
    /\ \E method \in Methods, body \in PdfBodies, up \in BOOLEAN :
          /\ pdfReq' = [method |-> method, body |-> body]
          /\ IF Exported = "verifyPayment"
             THEN LET done == VerifyPayment(method, body, up)
                  IN  /\ pdfRes' = <<done.res>>
                      /\ pdfCalls' = done.calls
                      /\ pdfPc' = "done"
             ELSE LET early == PdfPrecheck(method, body)
                  IN  IF early # <<>>
                      THEN /\ pdfRes' = early
                           /\ pdfCalls' = pdfCalls
                           /\ pdfPc' = "done"
                      ELSE /\ pdfRes' = pdfRes
                           /\ pdfCalls' = <<"pagespeed">>
                           /\ pdfPc' = "pagespeed"
    /\ UNCHANGED pdfData
    /\ UNCHANGED <<analyzeVars, leadVars, payVars, formVars>>

\* The Performance Provider call returns or fails.
PdfPageSpeedReturns ==
    /\ pdfPc = "pagespeed"
    /\ \E outcome \in PdfPageSpeedOutcomes :
          pdfData' = getPageSpeedData(outcome).value
    /\ pdfCalls' = Append(pdfCalls, "gemini")
    /\ pdfPc' = "gemini"
    /\ UNCHANGED <<pdfReq, pdfRes>>
    /\ UNCHANGED <<analyzeVars, leadVars, payVars, formVars>>

\* The Recommendation Provider call returns or fails; the handler answers.
PdfGeminiReturns ==
    /\ pdfPc = "gemini"
    /\ \E outcome \in PdfGeminiOutcomes :
          pdfRes' = <<PdfAuditResult(pdfReq.body[1], pdfData[1],
                        PdfGenerateAIRecommendations(pdfData[1], outcome))>>
    /\ pdfPc' = "done"
    /\ UNCHANGED <<pdfReq, pdfCalls, pdfData>>
    /\ UNCHANGED <<analyzeVars, leadVars, payVars, formVars>>

NextPdf ==
    \/ PdfReceive
    \/ PdfPageSpeedReturns
    \/ PdfGeminiReturns

SpecPdf == PdfInit /\ [][NextPdf]_vars

-----------------------------------------------------------------------------
(* Claim about generate-pdf, checked under SpecPdf *)

PdfAnswered(status) ==
    pdfPc = "done" /\ pdfRes # <<>> /\ pdfRes[1].status = status

PdfPostFor(sessionId) ==
    /\ pdfReq.method = "POST"
    /\ pdfReq.body # <<>>
    /\ pdfReq.body[1].sessionId = sessionId

\* C17: the exported handler answers a POST with 200 only after it has
\* retrieved the checkout session named by sessionId and found it paid, and
\* then the answer holds a report; for an unpaid session the answer is 400
\* and holds no report.
C17_ReportOnlyForPaidSession ==
    /\ (PdfAnswered(200) /\ pdfReq.method = "POST")
       => /\ "retrieve" \in Range(pdfCalls)
          /\ PdfPostFor("cs_paid")
          /\ pdfRes[1].report # <<>>
    /\ (PdfPostFor("cs_unpaid") /\ pdfPc = "done")
       => /\ PdfAnswered(400)
          /\ pdfRes[1].report = <<>>

-----------------------------------------------------------------------------
(* The form client (src/public/script.js) *)

\* most submissions of the form
MaxSubmits == 2

\* A text is the sequence of its characters. The texts of the model are
\* written with the letters, ".", ":", "/", "@", the space, the tab and the
\* line feed.
White == {" ", "\t", "\n"}

\* the letters, lower case then upper case
Letters ==
    <<"a", "b", "c", "d", "e", "f", "g", "h", "i", "j", "k", "l", "m", "n",
      "o", "p", "q", "r", "s", "t", "u", "v", "w", "x", "y", "z", "A", "B",
      "C", "D", "E", "F", "G", "H", "I", "J", "K", "L", "M", "N", "O", "P",
      "Q", "R", "S", "T", "U", "V", "W", "X", "Y", "Z">>

\* the submissions tried: texts that are no URL, URLs of other schemes and
\* http(s) URLs, with the name left blank or given
FormInputs ==
    [url : {<<>>,
            <<" ">>,
            <<"a", ".", "i", "o">>,
            <<"/", "/", "a", ".", "i", "o">>,
            <<"h", "t", "t", "p", "/", "/", "a", ".", "i", "o">>,
            <<"h", "t", "t", "p", ":">>,
            <<"h", "t", "t", "p", ":", "/", "/">>,
            <<"h", "t", "t", "p", ":", "/", "/", "a", ".", "i", "o">>,
            <<"h", "t", "t", "p", ":", "/", "/", "a", " ", "a">>,
            <<"h", "t", "\n", "t", "p", ":", "a", ".", "i", "o">>},
     email : {<<"a", "@", "b">>},
     name : {<<" ">>}]
    \cup
    [url : {<<" ", "h", "t", "t", "p", "s", ":", "/", "/", "a", ".", "i", "o",
              "\t">>,
            <<"H", "t", "T", "P", ":", "/", "a", ".", "i", "o">>,
            <<"h", "t", "t", "p", ":", "/", "/", "a", ":", "a">>,
            <<"f", "t", "p", ":", "/", "/", "a", ".", "i", "o">>,
            <<"w", "s", ":">>,
            <<"f", "i", "l", "e", ":">>,
            <<"j", "a", "v", "a", "s", "c", "r", "i", "p", "t", ":", "a">>,
            <<"j", "a", "v", "a", "s", "c", "r", "i", "p", "t", ":", "/", "/", ":">>,
            <<"a", ".", "i", "o", ":">>},
     email : {<<"a", "@", "b">>},
     name : {<<"A", "n", "n">>}]

\* the text without its leading characters of a set, and its longest
\* prefix that holds no character of a set
RECURSIVE DropWhile(_, _), TakeUntil(_, _)
DropWhile(s, set) ==
    IF s # <<>> /\ s[1] \in set THEN DropWhile(Tail(s), set) ELSE s
TakeUntil(s, stop) ==
    IF s = <<>> \/ s[1] \in stop THEN <<>>
    ELSE <<s[1]>> \o TakeUntil(Tail(s), stop)

\* String.prototype.trim: the text from its first to its last character
\* that is no white space
Trim(s) ==
    LET black == {i \in 1..Len(s) : s[i] \notin White}
    IN  IF black = {} THEN <<>>
        ELSE SubSeq(s, CHOOSE i \in black : \A j \in black : i <= j,
                       CHOOSE i \in black : \A j \in black : i >= j)

\* the text with its upper-case letters in lower case, as the URL parser
\* writes the scheme
LowerCase(text) ==
    [i \in 1..Len(text) |->
        IF \E k \in 27..52 : Letters[k] = text[i]
        THEN Letters[(CHOOSE k \in 27..52 : Letters[k] = text[i]) - 26]
        ELSE text[i]]

\* new URL(string) without a base: threw when the parser fails, else the
\* protocol of the parsed URL. The parser strips white space at both ends
\* and removes every tab and line feed. The text must begin with a scheme,
\* which begins with a letter and goes on with letters and dots, and ":".
\* After http, https, ftp, ws and wss the slashes are skipped and a host
\* must follow; after another scheme a host follows "//" only, and may be
\* empty. What stands before the last "@" ahead of the first slash is the
\* credentials, after which a host must follow. A host ends at ":", at a
\* slash or at the end; a space in it fails, and so does a ":" after an
\* empty host or before a port that is no number. After file the host after
\* "//" may be empty or a drive letter with its ":", and fails with
\* another ":", a space or an "@" in it.
NewUrl(string) ==
    LET s    == SelectSeq(Trim(string), LAMBDA c : c \notin {"\t", "\n"})
        word == TakeUntil(s, {":", "/", " ", "@"})
        n    == Len(word)
        Letter(c) == \E k \in 1..Len(Letters) : Letters[k] = c
        Has(t, c) == \E i \in 1..Len(t) : t[i] = c
    IN  IF n = 0 \/ Len(s) = n \/ s[n + 1] # ":" \/ ~Letter(s[1])
        THEN Thrown
        ELSE LET scheme  == LowerCase(word)
                 file    == scheme = <<"f", "i", "l", "e">>
                 special ==
                     scheme \in {<<"h", "t", "t", "p">>,
                                 <<"h", "t", "t", "p", "s">>,
                                 <<"f", "t", "p">>,
                                 <<"w", "s">>, <<"w", "s", "s">>}
                 rest    == SubSeq(s, n + 2, Len(s))
                 slashes == Len(rest) >= 2 /\ rest[1] = "/" /\ rest[2] = "/"
                 auth    == IF special THEN DropWhile(rest, {"/"})
                            ELSE IF slashes THEN SubSeq(rest, 3, Len(rest))
                            ELSE <<>>
                 authority == TakeUntil(auth, {"/"})
                 at      == {i \in 1..Len(authority) : authority[i] = "@"}
                 hostport ==
                     IF at = {} THEN authority
                     ELSE SubSeq(authority,
                                 1 + CHOOSE i \in at : \A j \in at : j <= i,
                                 Len(authority))
                 host    == TakeUntil(hostport, {":"})
                 colon   == Len(host) < Len(hostport)
                 port    == SubSeq(hostport, Len(host) + 2, Len(hostport))
                 drive   == /\ Len(authority) = 2
                            /\ Letter(authority[1])
                            /\ authority[2] = ":"
                 ok      ==
                     IF ~special /\ ~slashes THEN TRUE
                     ELSE IF file
                     THEN \/ authority = <<>>
                          \/ drive
                          \/ /\ ~Has(authority, ":")
                             /\ ~Has(authority, " ")
                             /\ ~Has(authority, "@")
                     ELSE /\ ~Has(host, " ")
                          /\ host = <<>> => ~special /\ ~colon /\ at = {}
                          /\ colon => port = <<>>
             IN  IF ok THEN Returned([protocol |-> Append(scheme, ":")])
                 ELSE Thrown

\* every URL that parses taken for valid
isValidUrl_AnyScheme(string) == ~NewUrl(string).threw

isValidUrl(string) ==
    LET url == NewUrl(string)
    IN  IF url.threw THEN FALSE
        ELSE url.value[1].protocol = <<"h", "t", "t", "p", ":">>
             \/ url.value[1].protocol = <<"h", "t", "t", "p", "s", ":">>

\* the body of the POST to /api/analyze: the trimmed fields, the name
\* 'User' when it is blank (name.trim() || 'User')
FetchBody(input) ==
    [url |-> Trim(input.url), email |-> Trim(input.email),
     name |-> IF Trim(input.name) = <<>> THEN <<"U", "s", "e", "r">>
              ELSE Trim(input.name)]

\* What await response.json() may come to: the audit result of the request,
\* or a body that is no JSON.
JsonOutcomes(body) ==
    {[kind |-> "ok", results |-> <<[url |-> body.url, email |-> body.email,
                                    name |-> body.name, overallScore |-> n]>>] :
        n \in {50, 72}}
    \cup {[kind |-> "badjson", results |-> <<>>]}

\* JSON.stringify(results): the text stored, not the object
Stringify(results) == [text |-> results]

\* a value already stored is kept
setItem_KeepFirst(store, value) == IF store = <<>> THEN <<value>> ELSE store

\* localStorage.setItem('auditResults', value): the one slot is replaced
setItem(store, value) == <<value>>

\* the button enabled again at the end of the try block only
DisabledAfter_NoFinally(outcome) == outcome.kind # "ok"

\* finally: btn.disabled = false, whatever the request came to
DisabledAfter(outcome) == FALSE

\* the executions of handleFormSubmit that wait at an await
Pending == {i \in 1..Len(formPc) : formPc[i] \in {"fetch", "json"}}

\* The form page has loaded. localStorage outlives the page: the slot is
\* empty or holds the result of an earlier visit.
FormInit ==
    /\ formPc = <<>>
    /\ formInput = <<>>
    /\ storage \in {<<>>,
                    <<Stringify([url |-> <<"h", "t", "t", "p", "s", ":", "/", "/", "b", ".", "i", "o">>,
                                 email |-> <<"a", "@", "b">>,
                                 name |-> <<"U", "s", "e", "r">>,
                                 overallScore |-> 91])>>}
    /\ btnDisabled = FALSE
    /\ page = "index.html"
    /\ location = "index.html"
    /\ fetches = <<>>
    /\ submits = <<>>
    /\ settled = <<>>
    /\ unlockPc = "idle"
    /\ unlockDisabled = FALSE
    /\ payPosts = <<>>
    /\ AnalyzeIdle /\ LeadIdle /\ PayIdle /\ PdfIdle

\* A submit event of the form is delivered in the document that holds the
\* form, be it after the script has asked for another page: handleFormSubmit
\* runs up to its first await or returns. Nothing in the handler looks at
\* the button, at the location or at executions that are still waiting.
FormSubmit ==
    /\ page = "index.html"
    /\ Len(submits) < MaxSubmits
    /\ \E input \in FormInputs :
          /\ formInput' = <<input>>
          /\ IF ~isValidUrl(Trim(input.url))
             THEN /\ submits' = Append(submits, "returned")
                  /\ UNCHANGED <<formPc, btnDisabled, fetches>>
             ELSE /\ submits' = Append(submits, "posted")
                  /\ btnDisabled' = TRUE
                  /\ fetches' = Append(fetches, FetchBody(input))
                  /\ formPc' = Append(formPc, "fetch")
    /\ UNCHANGED <<storage, page, location, settled, unlockPc,
                   unlockDisabled, payPosts>>
    /\ UNCHANGED <<analyzeVars, leadVars, payVars, pdfVars>>

\* await fetch of request i settles, with a 2xx response, a response that
\* is not ok or a rejection: with a 2xx response the handler calls
\* response.json() and waits again; otherwise catch and finally run.
FormFetchReturns ==
    /\ \E i \in 1..Len(formPc), kind \in {"response", "notok", "reject"} :
          /\ formPc[i] = "fetch"
          /\ IF kind = "response"
             THEN /\ formPc' = [formPc EXCEPT ![i] = "json"]
                  /\ UNCHANGED <<settled, btnDisabled>>
             ELSE LET outcome == [kind |-> kind, results |-> <<>>,
                                  request |-> i]
                  IN  /\ formPc' = [formPc EXCEPT ![i] = "done"]
                      /\ settled' = Append(settled, outcome)
                      /\ btnDisabled' = DisabledAfter(outcome)
    /\ UNCHANGED <<formInput, storage, page, location, fetches, submits,
                   unlockPc, unlockDisabled, payPosts>>
    /\ UNCHANGED <<analyzeVars, leadVars, payVars, pdfVars>>

\* await response.json() of request i settles: the result is stored and the
\* results page asked for, or catch runs, for a body that is no JSON and for
\* a store that refuses the write (setItem throws); then finally.
FormJsonReturns ==
    /\ \E i \in 1..Len(formPc) :
          /\ formPc[i] = "json"
          /\ \E o \in JsonOutcomes(fetches[i]), written \in BOOLEAN :
                LET outcome == [kind |-> IF o.kind = "ok" /\ ~written
                                         THEN "nostore" ELSE o.kind,
                                results |-> o.results, request |-> i]
                IN  /\ settled' = Append(settled, outcome)
                    /\ IF outcome.kind = "ok"
                       THEN /\ storage' = setItem(storage,
                                             Stringify(outcome.results[1]))
                            /\ location' = "audit.html"
                       ELSE UNCHANGED <<storage, location>>
                    /\ btnDisabled' = DisabledAfter(outcome)
          /\ formPc' = [formPc EXCEPT ![i] = "done"]
    /\ UNCHANGED <<formInput, page, fetches, submits, unlockPc,
                   unlockDisabled, payPosts>>
    /\ UNCHANGED <<analyzeVars, leadVars, payVars, pdfVars>>

\* A page of the site is loaded, by the navigation the script asked for or
\* by the visitor: the document is new, and the executions of the handlers
\* of the document before it that still wait end with it.
PageLoad ==
    /\ page' \in {"index.html", "audit.html"}
    /\ location' = page'
    /\ formPc' = [i \in 1..Len(formPc) |->
                     IF i \in Pending THEN "gone" ELSE formPc[i]]
    /\ formInput' = <<>>
    /\ btnDisabled' = FALSE
    /\ unlockPc' = "idle"
    /\ unlockDisabled' = FALSE
    /\ UNCHANGED <<storage, fetches, submits, settled, payPosts>>
    /\ UNCHANGED <<analyzeVars, leadVars, payVars, pdfVars>>

\* A click on unlockReportBtn in the document that holds it, which a
\* disabled button does not get: the handler runs up to its first await or
\* returns. JSON.parse(localStorage.getItem('auditResults')) is null for an
\* empty slot.
UnlockClick ==
    /\ page = "audit.html"
    /\ ~unlockDisabled
    /\ LET results == IF storage = <<>> THEN <<>> ELSE <<storage[1].text>>
       IN  IF results = <<>>
           THEN /\ location' = "index.html"
                /\ UNCHANGED <<unlockPc, unlockDisabled, payPosts>>
           ELSE /\ unlockDisabled' = TRUE
                /\ payPosts' = <<[email |-> results[1].email,
                                  url |-> results[1].url, amount |-> 499]>>
                /\ unlockPc' = "fetch"
                /\ UNCHANGED location
    /\ UNCHANGED <<formPc, formInput, storage, btnDisabled, page, fetches,
                   submits, settled>>
    /\ UNCHANGED <<analyzeVars, leadVars, payVars, pdfVars>>

\* await fetch('/api/create-payment') settles: with a response of any
\* status the handler calls response.json() and waits again; a rejected
\* fetch goes to catch, which enables the button.
UnlockFetchReturns ==
    /\ unlockPc = "fetch"
    /\ \E kind \in {"response", "reject"} :
          IF kind = "response"
          THEN unlockPc' = "json" /\ UNCHANGED unlockDisabled
          ELSE unlockPc' = "idle" /\ unlockDisabled' = FALSE
    /\ UNCHANGED <<formPc, formInput, storage, btnDisabled, page, location,
                   fetches, submits, settled, payPosts>>
    /\ UNCHANGED <<analyzeVars, leadVars, payVars, pdfVars>>

\* await response.json() settles: data.url is the page to go to, and the
\* button stays disabled; data without url (an error answer) and a body
\* that is no JSON go to catch.
UnlockJsonReturns ==
    /\ unlockPc = "json"
    /\ \E data \in {"url", "error", "badjson"} :
          IF data = "url"
          THEN location' = "checkout" /\ UNCHANGED unlockDisabled
          ELSE unlockDisabled' = FALSE /\ UNCHANGED location
    /\ unlockPc' = "idle"
    /\ UNCHANGED <<formPc, formInput, storage, btnDisabled, page, fetches,
                   submits, settled, payPosts>>
    /\ UNCHANGED <<analyzeVars, leadVars, payVars, pdfVars>>

NextForm ==
    \/ FormSubmit
    \/ FormFetchReturns
    \/ FormJsonReturns
    \/ PageLoad
    \/ UnlockClick
    \/ UnlockFetchReturns
    \/ UnlockJsonReturns

SpecForm == FormInit /\ [][NextForm]_vars

-----------------------------------------------------------------------------
(* Claim about the form client, checked under SpecForm *)

\* The entered text is an absolute http: or https: URL. Without the white
\* space at its ends and without tabs and line feeds it reads: http or
\* https in either case; ":"; slashes, if any; credentials that end with
\* "@", if any; a host of one character or more with no ":", space or "@";
\* an empty port after ":", if any; and then nothing more, or a path that
\* begins with "/".
HttpUrl(string) ==
    LET s == SelectSeq(Trim(string), LAMBDA c : c \notin {"\t", "\n"})
    IN  \E k \in {4, 5} :
          /\ Len(s) > k
          /\ LowerCase(SubSeq(s, 1, k))
                = SubSeq(<<"h", "t", "t", "p", "s">>, 1, k)
          /\ s[k + 1] = ":"
          /\ \E c \in k + 2..Len(s), h \in k + 2..Len(s), e \in k + 2..Len(s) :
                /\ c <= h /\ h <= e
                /\ \A i \in k + 2..c - 1 : s[i] = "/"
                /\ \A i \in c..h - 1 : s[i] # "/"
                /\ c < h => s[h - 1] = "@"
                /\ \A i \in h..e : s[i] \notin {"/", ":", " ", "@"}
                /\ \/ e = Len(s)
                   \/ s[e + 1] = "/"
                   \/ /\ s[e + 1] = ":"
                      /\ e + 1 = Len(s) \/ s[e + 2] = "/"

\* C18: a submission issues the POST to /api/analyze when the entered URL
\* is an absolute http: or https: URL; for any other input the handler
\* returns with no request issued and the stored result, the button and
\* the location unchanged; and no step but such a submission issues a POST.
C18_PostOnlyForHttpUrl ==
    [][/\ submits' # submits
          => IF HttpUrl(formInput'[1].url)
             THEN fetches' = Append(fetches, FetchBody(formInput'[1]))
             ELSE UNCHANGED <<fetches, formPc, storage, btnDisabled,
                              location>>
       /\ fetches' # fetches
          => submits' # submits /\ HttpUrl(formInput'[1].url)]_vars

\* a URL of another scheme was submitted after the script had asked for the
\* results page and before that page loaded: the handler returned
C18_Witness ==
    /\ formInput # <<>>
    /\ ~NewUrl(formInput[1].url).threw
    /\ ~HttpUrl(formInput[1].url)
    /\ submits = <<"posted", "returned">>
    /\ page = "index.html"
    /\ location = "audit.html"
    /\ Len(fetches) = 1
    /\ Len(settled) = 1
    /\ settled[1].kind = "ok"
    /\ storage = <<Stringify(settled[1].results[1])>>
    /\ ~btnDisabled

-----------------------------------------------------------------------------
(* getPageSpeedData over a grid of provider fractions: SpecScores *)

\* distance in thousandths between neighbouring fractions of the grid
GridStep == 100

\* getPageSpeedData is about to be handed the provider's answer psOutcome:
\* an exception, a payload without categories, or categories whose scores
\* are missing or lie on the grid (the multiples of GridStep, the fractions
\* of the handler's specification and those that round down at a half).
ScoresInit ==
    /\ env = [PAGESPEED_API_KEY |-> Undefined, GEMINI_API_KEY |-> Undefined]
    /\ pc = "pagespeed"
    /\ req = NoRequest
    /\ calls = <<>>
    /\ LET grid   == {k \in 0..1000 : k % GridStep = 0} \cup Fractions
                        \cup BelowHalf
           scores == {<<>>} \cup {<<k>> : k \in grid}
       IN  psOutcome \in
             {[kind |-> k, categories |-> NoCategories] :
                 k \in {"throw", "nocategories"}}
             \cup
             {[kind |-> "ok",
               categories |-> [performance |-> p, seo |-> s,
                               accessibility |-> a, bestPractices |-> b]] :
                 p \in scores, s \in scores, a \in scores, b \in scores}
    /\ pageSpeedData = <<>>
    /\ aiOutcome = NoOutcome
    /\ res = <<>>
    /\ ExecsIdle
    /\ LeadIdle /\ PayIdle /\ PdfIdle /\ FormIdle

\* getPageSpeedData returns.
ScoresReturn ==
    /\ pc = "pagespeed"
    /\ pageSpeedData' = getPageSpeedData(psOutcome).value
    /\ pc' = "scored"
    /\ UNCHANGED <<env, req, calls, psOutcome, aiOutcome, res, execs>>
    /\ UNCHANGED <<leadVars, payVars, pdfVars, formVars>>

SpecScores == ScoresInit /\ [][ScoresReturn]_vars

\* the raw fraction of a category in thousandths, 0 for a missing one
Raw(c) == IF c = <<>> THEN 0 ELSE c[1]

\* round(100 * (p + s + a + (p + b)/2) / 4) for fractions in thousandths
RoundedRawMean(categories) ==
    MathRound(3 * Raw(categories.performance) + 2 * Raw(categories.seo)
              + 2 * Raw(categories.accessibility)
              + Raw(categories.bestPractices), 80)

Distance(a, b) == IF a < b THEN b - a ELSE a - b

Scored == pc = "scored" /\ psOutcome.kind = "ok"

\* C21: the reported overallScore is within 1 of the rounding of the mean
\* of the unrounded provider values.
C21_OverallWithinOneOfRawMean ==
    Scored => Distance(pageSpeedData[1].overallScore,
                       RoundedRawMean(psOutcome.categories)) <= 1

\* the difference of exactly 1 happens
C21_Witness ==
    /\ Scored
    /\ Distance(pageSpeedData[1].overallScore,
                RoundedRawMean(psOutcome.categories)) = 1

ScoreFields(data) ==
    {data.overallScore, data.performance, data.seo, data.mobile,
     data.accessibility}

\* C22: performance, seo, accessibility, mobile and overallScore are
\* integers in [0,100], for every provider answer and on the fallback path.
C22_ScoresWithinZeroToHundred ==
    pc = "scored" => ScoreFields(pageSpeedData[1]) \subseteq 0..100

C22_Witness ==
    /\ Scored
    /\ pageSpeedData[1].performance = 100
    /\ pageSpeedData[1].mobile = 100
    /\ pageSpeedData[1].seo = 0
    /\ pageSpeedData[1].overallScore = 75

-----------------------------------------------------------------------------
(* Further claims about the lead-capture handler, checked under SpecLead *)

\* C23: every row of the table has status 'new' and zoho_synced false, in
\* every reachable state: at its creation and after every later step, a
\* CRM relay that succeeded for it included.
C23_StatusAndSyncedWriteOnce ==
    \A i \in 1..Len(leads) :
        leads[i].status = "new" /\ leads[i].zoho_synced = FALSE

C23_Witness ==
    /\ Logged("zoho", "ok") \in Range(leadLog)
    /\ LeadAnswered(200)
    /\ Len(leads) = 2
    /\ leadRes[1].leadId = <<2>>
    /\ leads[2].zoho_synced = FALSE

-----------------------------------------------------------------------------
(* Further claims about the form client, checked under SpecForm *)

\* the results that arrived and were stored, by their place in the order
\* of arrival
Succeeded == {i \in 1..Len(settled) : settled[i].kind = "ok"}

\* what the request that settled last came to
LastSettled == settled[Len(settled)]

\* C24 as stated: once a result has been stored, whenever no request is in
\* flight what the slot holds is the result of the most recent submission.
C24_SlotHoldsMostRecentSubmission ==
    (Pending = {} /\ Succeeded # {})
    => /\ submits[Len(submits)] = "posted"
       /\ \E k \in Succeeded :
             /\ settled[k].request = Len(fetches)
             /\ storage = <<Stringify(settled[k].results[1])>>

\* C24, amended: the slot is single; every result that arrives and that
\* the store accepts replaces what the slot holds, and nothing else writes
\* the slot. So the slot holds the result stored last, whichever
\* submission it answers, and a submission that is refused, whose request
\* fails or has not been answered, or whose result the store refuses,
\* leaves the slot as it was.
C24_SlotHoldsMostRecentResult ==
    [][/\ (settled' # settled /\ LastSettled'.kind = "ok")
          => storage' = <<Stringify(LastSettled'.results[1])>>
       /\ storage' # storage
          => settled' # settled /\ LastSettled'.kind = "ok"]_vars

\* the slot held the result of an earlier visit, then two submissions, one
\* after the other, were answered with different results: the slot holds
\* the second
C24_Witness ==
    /\ Len(settled) = 2
    /\ Succeeded = {1, 2}
    /\ settled[1].request = 1
    /\ settled[2].request = 2
    /\ settled[1].results # settled[2].results
    /\ storage = <<Stringify(settled[2].results[1])>>
    /\ location = "audit.html"

\* C29: the button is disabled when a request is issued and enabled again
\* when the request settles, whatever it came to; a request that came to no
\* result (a response that is not ok, a network error, a body that is no
\* JSON, a result the store refuses) leaves the stored value as it was and
\* asks for no other page.
C29_FailedRequestLeavesSlotAndPage ==
    [][/\ fetches' # fetches => btnDisabled'
       /\ settled' # settled
          => /\ ~btnDisabled'
             /\ settled'[Len(settled')].kind # "ok"
                => UNCHANGED <<storage, location>>]_vars

\* back on the form's page with a stored result, a second request failed:
\* the result is still stored, the form's page is still shown and the
\* button is enabled
C29_Witness ==
    /\ Pending = {}
    /\ Len(settled) = 2
    /\ settled[1].kind = "ok"
    /\ settled[2].kind \in {"notok", "reject"}
    /\ storage = <<Stringify(settled[1].results[1])>>
    /\ location = "index.html"
    /\ ~btnDisabled

-----------------------------------------------------------------------------
(* Order of the lead-capture steps, checked under SpecLead *)

Ops(log) == [i \in 1..Len(log) |-> log[i].op]

\* C30: the CRM relay is sent at most once, only with ZOHO_WEBHOOK_URL
\* configured and only after the insert succeeded; the team notification
\* follows the relay attempt whatever it came to; the 200 answer follows
\* both. The calls of an execution are therefore a prefix of insert, zoho,
\* notify with the webhook configured and of insert, notify without it.
C30_RelayThenNotificationThenAnswer ==
    LET configured == ~Falsy(leadEnv.ZOHO_WEBHOOK_URL)
        order == IF configured THEN <<"insert", "zoho", "notify">>
                 ELSE <<"insert", "notify">>
    IN  /\ Len(leadLog) <= Len(order)
        /\ Ops(leadLog) = SubSeq(order, 1, Len(leadLog))
        /\ Len(leadLog) >= 2 => leadLog[1] = Logged("insert", "ok")
        /\ leadPc = "zoho" => configured /\ leadLog = <<Logged("insert", "ok")>>
        /\ leadPc = "notify" => Len(leadLog) = Len(order) - 1
        /\ (leadRes # <<>> /\ leadRes[1].success)
           => leadPc = "done" /\ Len(leadLog) = Len(order)

C30_Witness ==
    /\ leadLog = <<Logged("insert", "ok"), Logged("zoho", "throw"),
                   Logged("notify", "ok")>>
    /\ LeadAnswered(200)
    /\ leadRes[1].success

-----------------------------------------------------------------------------
(* Further claims about the analyze handler, checked under Spec *)

\* C26: validation of the request comes before the configuration check and
\* the PageSpeed check before the Gemini check: a POST lacking url or email
\* is answered 400 also with a credential missing, and with both
\* credentials missing the 500 answer names PAGESPEED_API_KEY only.
C26_ValidationBeforeConfiguration ==
    /\ (PostWithBody /\ ~Configured
          /\ (Blank(req.body[1].url) \/ Blank(req.body[1].email)))
       => /\ pc = "done"
          /\ res[1] = Respond(400, "URL and email are required")
    /\ (ValidPost /\ Blank(env.PAGESPEED_API_KEY) /\ Blank(env.GEMINI_API_KEY))
       => /\ pc = "done"
          /\ res[1] = Respond(500, "PAGESPEED_API_KEY missing")

\* a 400 answer with both credentials missing
C26_Witness ==
    /\ PostWithBody
    /\ ~Blank(req.body[1].url)
    /\ Blank(req.body[1].email)
    /\ Blank(env.PAGESPEED_API_KEY)
    /\ Blank(env.GEMINI_API_KEY)
    /\ res # <<>>
    /\ res[1].status = 400

\* the six category-specific entries of the rule table
CategoryTitles ==
    {"Optimize Images", "Minify CSS and JavaScript", "Improve Meta Tags",
     "Fix Heading Structure", "Mobile Responsive Design",
     "Improve Accessibility"}

\* C27: with c the number of category-specific entries the profile calls
\* for, the fallback list has length min(6, c + 2), holds "Enable Browser
\* Caching" exactly when c < 6 and "Install SSL Certificate" exactly when
\* c < 5; with all four scores below 70, the all-50 profile among them, it
\* is the six category-specific entries, and with all four at 70 or above
\* it has length 2.
C27_FallbackLength ==
    /\ Titles(getFallbackRecommendations(FallbackScores)) = CategoryTitles
    /\ (Answered200 /\ NoArrayFromProvider)
       => LET c    == SpecificCount(Result)
              list == Result.recommendations
          IN  /\ Len(list) = Min(6, c + 2)
              /\ ("Enable Browser Caching" \in Titles(list)) <=> (c < 6)
              /\ ("Install SSL Certificate" \in Titles(list)) <=> (c < 5)
              /\ c = 6 => Len(list) = 6 /\ Titles(list) = CategoryTitles
              /\ c = 0 => Len(list) = 2

\* five category-specific entries followed by the caching entry alone
C27_Witness ==
    /\ Answered200
    /\ NoArrayFromProvider
    /\ SpecificCount(Result) = 5
    /\ Len(Result.recommendations) = 6
    /\ Result.recommendations[6] = EnableBrowserCaching

-----------------------------------------------------------------------------
(* Further claim about getPageSpeedData, checked under SpecScores *)

ZeroIfMissing(c) == IF c = <<>> THEN <<0>> ELSE c

\* the provider's answer with a score of 0 put for every missing category
ZeroFilled(outcome) ==
    [outcome EXCEPT !.categories =
        [performance   |-> ZeroIfMissing(outcome.categories.performance),
         seo           |-> ZeroIfMissing(outcome.categories.seo),
         accessibility |-> ZeroIfMissing(outcome.categories.accessibility),
         bestPractices |-> ZeroIfMissing(outcome.categories.bestPractices)]]

\* C28: with the categories object present, a category that is missing or
\* has a null or zero score is reported as 0 and enters mobile and
\* overallScore as 0: the scores are those of the same answer with 0 in its
\* place, and not the all-50 fallback, which is returned when the call
\* throws or the categories object is absent.
C28_MissingCategoryIsZero ==
    pc = "scored"
    => IF psOutcome.kind = "ok"
       THEN LET c == psOutcome.categories
                d == pageSpeedData[1]
            IN  /\ Raw(c.performance) = 0 => d.performance = 0
                /\ Raw(c.seo) = 0 => d.seo = 0
                /\ Raw(c.accessibility) = 0 => d.accessibility = 0
                /\ Raw(c.performance) = 0 /\ Raw(c.bestPractices) = 0
                   => d.mobile = 0
                /\ (\A x \in {c.performance, c.seo, c.accessibility,
                              c.bestPractices} : Raw(x) = 0)
                   => d.overallScore = 0
                /\ pageSpeedData = getPageSpeedData(ZeroFilled(psOutcome)).value
       ELSE pageSpeedData = <<FallbackScores>>

\* performance missing, seo zero, the other two at 1
C28_Witness ==
    /\ Scored
    /\ psOutcome.categories.performance = <<>>
    /\ psOutcome.categories.seo = <<0>>
    /\ psOutcome.categories.accessibility = <<1000>>
    /\ psOutcome.categories.bestPractices = <<1000>>
    /\ pageSpeedData[1] = [overallScore |-> 38, performance |-> 0, seo |-> 0,
                           mobile |-> 50, accessibility |-> 100]

-----------------------------------------------------------------------------
(* Several analyze executions in progress at once: SpecConcurrent *)

\* The platform may run the handler for a new request while earlier
\* executions wait at an await. Each execution has its own req, res and
\* locals; process.env is the only thing they share, and it is read only.

\* the cached scores of the first execution used by every execution
ScoresOf_ModuleCache(ex, i) ==
    IF ex[1].pageSpeedData # <<>> THEN ex[1].pageSpeedData[1]
    ELSE ex[i].pageSpeedData[1]

\* the local pageSpeedData of execution i (const, lines 36-39)
ScoresOf(ex, i) == ex[i].pageSpeedData[1]

ConcInit ==
    /\ env \in {[PAGESPEED_API_KEY |-> "key", GEMINI_API_KEY |-> "key"],
                [PAGESPEED_API_KEY |-> "key", GEMINI_API_KEY |-> Undefined]}
    /\ pc = "idle"
    /\ req = NoRequest
    /\ calls = <<>>
    /\ psOutcome = NoOutcome
    /\ pageSpeedData = <<>>
    /\ aiOutcome = NoOutcome
    /\ res = <<>>
    /\ ExecsIdle
    /\ LeadIdle /\ PayIdle /\ PdfIdle /\ FormIdle

\* Request i arrives; its execution runs up to its first await or answers.
ConcReceive ==
    /\ \E i \in 1..NumRequests, method \in {"GET", "POST"},
          body \in {<<>>,
                    <<[url |-> "https://a.example", email |-> "ann@a.example",
                       name |-> "Ann"]>>,
                    <<[url |-> "https://b.example", email |-> "bob@b.example",
                       name |-> Undefined]>>,
                    <<[url |-> "https://a.example", email |-> Undefined,
                       name |-> "Ann"]>>} :
          /\ execs[i].pc = "idle"
          /\ LET early == Precheck(method, body, env)
             IN  execs' = [execs EXCEPT
                    ![i].req = [method |-> method, body |-> body],
                    ![i].res = early,
                    ![i].pc = IF early # <<>> THEN "done" ELSE "pagespeed"]
    /\ UNCHANGED <<env, pc, req, calls, psOutcome, pageSpeedData, aiOutcome,
                   res>>
    /\ UNCHANGED <<leadVars, payVars, pdfVars, formVars>>

\* The Performance Provider answers execution i: an exception, or a payload
\* whose four categories carry the same score.
ConcPageSpeedReturns ==
    /\ \E i \in 1..NumRequests,
          outcome \in {o \in PageSpeedOutcomes :
                         /\ o.kind # "nocategories"
                         /\ o.kind = "ok" =>
                             /\ o.categories.performance
                                    \in {<<285>>, <<1000>>}
                             /\ o.categories.seo = o.categories.performance
                             /\ o.categories.accessibility
                                    = o.categories.performance
                             /\ o.categories.bestPractices
                                    = o.categories.performance} :
          /\ execs[i].pc = "pagespeed"
          /\ LET r == getPageSpeedData(outcome)
             IN  execs' = [execs EXCEPT
                    ![i].psOutcome = outcome,
                    ![i].pageSpeedData = r.value,
                    ![i].res = IF r.threw THEN <<AnalysisFailed>> ELSE @,
                    ![i].pc = IF r.threw THEN "done" ELSE "gemini"]
    /\ UNCHANGED <<env, pc, req, calls, psOutcome, pageSpeedData, aiOutcome,
                   res>>
    /\ UNCHANGED <<leadVars, payVars, pdfVars, formVars>>

\* The Recommendation Provider answers execution i, which responds.
ConcGeminiReturns ==
    /\ \E i \in 1..NumRequests,
          outcome \in {o \in GeminiOutcomes :
                         /\ o.kind # "malformed"
                         /\ o.kind = "text"
                             => o.text \in {ArrayText(1), ArrayText(2)}} :
          /\ execs[i].pc = "gemini"
          /\ LET data == ScoresOf(execs, i)
                 r    == generateAIRecommendations(data, outcome)
             IN  execs' = [execs EXCEPT
                    ![i].aiOutcome = outcome,
                    ![i].res = IF r.threw THEN <<AnalysisFailed>>
                               ELSE <<AuditResult(execs[i].req.body[1], data,
                                                  r.value[1])>>,
                    ![i].pc = "done"]
    /\ UNCHANGED <<env, pc, req, calls, psOutcome, pageSpeedData, aiOutcome,
                   res>>
    /\ UNCHANGED <<leadVars, payVars, pdfVars, formVars>>

NextConcurrent ==
    \/ ConcReceive
    \/ ConcPageSpeedReturns
    \/ ConcGeminiReturns

SpecConcurrent == ConcInit /\ [][NextConcurrent]_vars

\* What one execution alone answers to a request, given the configuration
\* and the answers of the two providers to its own calls.
AnswerAlone(request, e, ps, ai) ==
    LET early == Precheck(request.method, request.body, e)
    IN  IF early # <<>> THEN early
        ELSE LET data == getPageSpeedData(ps).value[1]
             IN  <<AuditResult(request.body[1], data,
                     generateAIRecommendations(data, ai).value[1])>>

\* C25: under every interleaving, the answer of each execution is the one
\* this execution would give alone: a function of its own request, the
\* configuration and the providers' answers to its own calls.
C25_ExecutionsIndependent ==
    \A i \in 1..NumRequests :
        execs[i].pc = "done"
        => execs[i].res = AnswerAlone(execs[i].req, env, execs[i].psOutcome,
                                      execs[i].aiOutcome)

\* two executions that overlapped, for different requests and with
\* different provider answers, both answered
C25_Witness ==
    /\ execs[1].pc = "done" /\ execs[2].pc = "done"
    /\ execs[1].res[1].status = 200 /\ execs[2].res[1].status = 200
    /\ execs[1].req.body # execs[2].req.body
    /\ execs[1].res[1].body[1].performance = 28
    /\ execs[2].res[1].body[1].performance = 100
    /\ execs[1].res[1].body[1].url = "https://a.example"
    /\ execs[2].res[1].body[1].url = "https://b.example"

====
